---- MODULE Spec2Model ----
(***************************************************************************)
(* A model of the Pendle MCP server's transaction-construction and         *)
(* response-normalisation layer:                                           *)
(*   - pendle.py: the error classifier and the eight direct-chain router   *)
(*     operations (build, sign, submit, wait for the receipt);             *)
(*   - pendle_api_client.py: OptimizedPendleClient, its TTL cache, the     *)
(*     cache key and the hosted conversion calls.                          *)
(* Strings whose content the code inspects are sequences: an error message *)
(* is a sequence of word atoms (the revert identifiers are made of them),  *)
(* an endpoint, a parameter name and a cache key are sequences of          *)
(* characters.                                                             *)
(***************************************************************************)
EXTENDS Integers, Sequences, FiniteSets, TLC

VARIABLES
    \* ---- pendle.py: module state and the direct-chain call in progress
    PENDLE_CONTRACT_ADDRESS, \* config.py: the router address read from the environment
    op,                      \* the direct-chain operation being executed, or "none"
    pc,                      \* position inside that operation
    chain_log,               \* wallet / chain interactions of the call, in order
    transaction,             \* the built transaction
    tx_hash,                 \* what send_raw_transaction returned (<<>>: nothing yet)
    receipt,                 \* what wait_for_transaction_receipt returned
    caught,                  \* the exception e the except clause caught: [str |-> str(e)]
    result,                  \* the value the operation returned
    raised,                  \* the exception the operation raised
    approx_params,           \* the ApproxParams handed to the operation (None: it takes none)
    token_arg,               \* the TokenInput or TokenOutput handed to it (None: it takes none)
    router_args,             \* the arguments handed to the router function
    gas_price,               \* web3.eth.gas_price: the network's gas price now
    \* ---- tools.py: the tool called
    tool,                    \* its name, or "none"
    kwargs,                  \* the keyword arguments it was called with
    swap_data,               \* the SwapData it built (None: it builds none)
    tool_out,                \* what the tool itself returned or raised before any operation
    \* ---- the error classifier applied to one message
    error_msg,
    classified,
    \* ---- pendle_api_client.py: the hosted conversion call in progress
    conv_op,                 \* the conversion operation, or "none"
    conv_pc,                 \* "idle", "awaiting" (the POST is in flight) or "done"
    conv_args,               \* its arguments
    conv_posts,              \* the HTTP POSTs the call issued, in order
    conv_response,           \* what the hosted service answered
    conv_outcome,            \* what the operation returned or raised
    conv_last,               \* between calls: the POST of the call before
    conv_repeat,             \* this call repeats the POST of the call before
    \* ---- pendle_api_client.py: the cache key of two requests
    call_a, call_b,          \* the (endpoint, params) of each request
    key_a, key_b,            \* the cache key computed for each (<<>>: not yet)
    \* ---- pendle_api_client.py: the TTL cache and its callers
    now,                     \* time.time(), in seconds
    _cache,                  \* key -> (data, timestamp)
    task_pc,                 \* per caller: "idle", "awaiting", "done"
    task_req,                \* per caller: the (endpoint, params) asked for
    cache_key,               \* per caller: local cache_key
    cached,                  \* per caller: local cached = _get_cached(cache_key)
    task_get,                \* per caller: the upstream GET this call issued
    task_resp,               \* per caller: what came back for that GET
    task_out,                \* per caller: what the call returned or raised
    \* ---- pendle_api_client.py: get_markets_batch
    batch_pc,                \* "idle", "gathering", "done"
    chain_ids,               \* the caller's list of chain identifiers
    limit,                   \* the caller's limit
    chain_try,               \* per chain: endpoint being tried (0: task over)
    chain_error,             \* per chain: the upstream failure seen last
    results,                 \* per chain: what gather holds for its task
    completed,               \* positions of the chains in completion order
    batch_log,               \* the lines printed
    batch_out,               \* what get_markets_batch returned or raised
    batch_prev,              \* the call before this one: its arguments, whether it succeeded
    \* ---- pendle_api_client.py: get_best_opportunities
    opp_min,                 \* the caller's min_liquidity
    opp_out                  \* what get_best_opportunities returned or raised

chainVars == <<PENDLE_CONTRACT_ADDRESS, op, pc, chain_log, transaction,
               tx_hash, receipt, caught, result, raised, approx_params, token_arg,
               router_args>>
toolVars == <<tool, kwargs, swap_data, tool_out>>
oppVars == <<opp_min, opp_out>>
classifyVars == <<error_msg, classified>>
convertVars == <<conv_op, conv_pc, conv_args, conv_posts, conv_response, conv_outcome,
                 conv_last, conv_repeat>>
keyVars == <<call_a, call_b, key_a, key_b>>
cacheVars == <<now, _cache, task_pc, task_req, cache_key, cached, task_get, task_resp,
               task_out>>
batchVars == <<batch_pc, chain_ids, limit, chain_try, chain_error, results, completed,
               batch_log, batch_out, batch_prev>>
nonChainVars == <<classifyVars, convertVars, keyVars, cacheVars, batchVars, toolVars, oppVars>>
nonClassifyVars == <<chainVars, convertVars, keyVars, cacheVars, batchVars, toolVars, gas_price, oppVars>>
nonConvertVars == <<chainVars, classifyVars, keyVars, cacheVars, batchVars, toolVars, gas_price, oppVars>>
nonKeyVars == <<chainVars, classifyVars, convertVars, cacheVars, batchVars, toolVars, gas_price, oppVars>>
nonCacheVars == <<chainVars, classifyVars, convertVars, keyVars, batchVars, toolVars, gas_price, oppVars>>
nonBatchVars == <<chainVars, classifyVars, convertVars, keyVars, cacheVars, toolVars, gas_price, oppVars>>
nonToolVars == <<classifyVars, convertVars, keyVars, cacheVars, batchVars, gas_price, oppVars>>
vars == <<chainVars, classifyVars, convertVars, keyVars, cacheVars, batchVars, toolVars, gas_price, oppVars>>

None == [kind |-> "None"]

\* dict.get(key) and dict.get(key, default)
Get(d, k) == IF k \in DOMAIN d THEN d[k] ELSE None
GetOr(d, k, default) == IF k \in DOMAIN d THEN d[k] ELSE default

(***************************************************************************)
(* Error messages.  A message is a sequence of atoms; concatenating the    *)
(* atoms gives the text.  The five revert identifiers the classifier looks *)
(* for are the atom sequences below, so that "MarketZeroAmounts" alone, or *)
(* "Market" followed by other text, contains none of them.                 *)
(***************************************************************************)
Atoms == {"Market", "Expired", "ExchangeRateBelowOne", "ProportionTooHigh",
          "ZeroAmounts", "Input", "Output", "SomeOtherError"}

MarketExpired              == <<"Market", "Expired">>
MarketExchangeRateBelowOne == <<"Market", "ExchangeRateBelowOne">>
MarketProportionTooHigh    == <<"Market", "ProportionTooHigh">>
MarketZeroAmountsInput     == <<"Market", "ZeroAmounts", "Input">>
MarketZeroAmountsOutput    == <<"Market", "ZeroAmounts", "Output">>

RevertIdentifiers == {MarketExpired, MarketExchangeRateBelowOne,
                      MarketProportionTooHigh, MarketZeroAmountsInput,
                      MarketZeroAmountsOutput}

\* Longest message handed to the classifier on its own.
MaxMsgLen == 5
\* Longest message a failing chain step raises.
MaxStepMsgLen == 2

MessagesUpTo(n) == UNION {[1..k -> Atoms] : k \in 0..n}

RECURSIVE Joined(_)
\* The message made of the identifiers ids, one after the other.
Joined(ids) == IF ids = <<>> THEN <<>> ELSE Head(ids) \o Joined(Tail(ids))

\* The messages that name two or more different revert identifiers, in every
\* order.
SeveralIdentifierMessages ==
    {Joined(ids) : ids \in {x \in UNION {[1..k -> RevertIdentifiers] : k \in 2..5} :
                               \A i, j \in 1..Len(x) : x[i] = x[j] => i = j}}

\* Python's  needle in hay  on strings.
Contains(needle, hay) ==
    \E i \in 0..(Len(hay) - Len(needle)) :
        SubSeq(hay, i + 1, i + Len(needle)) = needle

(***************************************************************************)
(* pendle.py: the exception classes and _handle_contract_error.            *)
(* An exception is its class and its message; the catch-all's message is   *)
(* the fixed prefix followed by the original message.                      *)
(***************************************************************************)
PendleErrorFamily == {"PendleError", "InsufficientBalanceError",
                      "MarketExpiredError", "InvalidParametersError"}

Exc(cls, text, wrapped) == [cls |-> cls, text |-> text, wrapped |-> wrapped]

Raise(e)   == [kind |-> "raise", exc |-> e]
Return(v)  == [kind |-> "return", value |-> v]

\* A classifier that lets unrecognised messages through without raising.
HandleContractErrorSwallowing(msg) ==
    IF Contains(MarketExpired, msg)
    THEN Raise(Exc("MarketExpiredError", "Market has expired", <<>>))
    ELSE Return(None)

\* _handle_contract_error testing MarketZeroAmountsOutput before
\* MarketZeroAmountsInput.
HandleContractErrorOutputFirst(msg) ==
    IF Contains(MarketExpired, msg)
    THEN Raise(Exc("MarketExpiredError", "Market has expired", <<>>))
    ELSE IF Contains(MarketExchangeRateBelowOne, msg)
    THEN Raise(Exc("PendleError", "Market exchange rate is below one", <<>>))
    ELSE IF Contains(MarketProportionTooHigh, msg)
    THEN Raise(Exc("PendleError", "Market proportion is too high", <<>>))
    ELSE IF Contains(MarketZeroAmountsOutput, msg)
    THEN Raise(Exc("InvalidParametersError", "Zero amounts provided for output", <<>>))
    ELSE IF Contains(MarketZeroAmountsInput, msg)
    THEN Raise(Exc("InvalidParametersError", "Zero amounts provided for input", <<>>))
    ELSE Raise(Exc("PendleError", "Contract error: ", msg))

_handle_contract_error(msg) ==
    IF Contains(MarketExpired, msg)
    THEN Raise(Exc("MarketExpiredError", "Market has expired", <<>>))
    ELSE IF Contains(MarketExchangeRateBelowOne, msg)
    THEN Raise(Exc("PendleError", "Market exchange rate is below one", <<>>))
    ELSE IF Contains(MarketProportionTooHigh, msg)
    THEN Raise(Exc("PendleError", "Market proportion is too high", <<>>))
    ELSE IF Contains(MarketZeroAmountsInput, msg)
    THEN Raise(Exc("InvalidParametersError", "Zero amounts provided for input", <<>>))
    ELSE IF Contains(MarketZeroAmountsOutput, msg)
    THEN Raise(Exc("InvalidParametersError", "Zero amounts provided for output", <<>>))
    ELSE Raise(Exc("PendleError", "Contract error: ", msg))

(***************************************************************************)
(* pendle.py: the router binding and the eight direct-chain operations.    *)
(***************************************************************************)
ContractAddresses == {"", "TBD", "0x888888888889758F76e7103c6CbF23ABbF58F946"}

\* pendle.py 13-16: bound only for a non-empty address other than 'TBD'.
pendle_contract ==
    IF PENDLE_CONTRACT_ADDRESS # "" /\ PENDLE_CONTRACT_ADDRESS # "TBD"
    THEN [kind |-> "Contract", address |-> PENDLE_CONTRACT_ADDRESS]
    ELSE None

UnavailableResult ==
    [error      |-> "Pendle contracts not deployed on Arbitrum Sepolia yet",
     network    |-> "Arbitrum Sepolia",
     suggestion |-> "Try Ethereum Mainnet for full functionality"]

check_contract_or_return_error ==
    IF pendle_contract = None THEN UnavailableResult ELSE None

\* str() of the AttributeError that  pendle_contract.functions  raises on None.
NoneTypeMessage == <<"'NoneType' object has no attribute 'functions'">>

Operations == {"add_liquidity_dual_sy_and_pt", "add_liquidity_single_sy",
               "add_liquidity_single_token", "remove_liquidity_dual_sy_and_pt",
               "remove_liquidity_single_sy", "remove_liquidity_single_token",
               "mint_py_from_sy", "redeem_py_to_sy"}

RouterFunction(o) ==
    CASE o = "add_liquidity_dual_sy_and_pt"    -> "addLiquidityDualSyAndPt"
      [] o = "add_liquidity_single_sy"         -> "addLiquiditySingleSy"
      [] o = "add_liquidity_single_token"      -> "addLiquiditySingleToken"
      [] o = "remove_liquidity_dual_sy_and_pt" -> "removeLiquidityDualSyAndPt"
      [] o = "remove_liquidity_single_sy"      -> "removeLiquiditySingleSy"
      [] o = "remove_liquidity_single_token"   -> "removeLiquiditySingleToken"
      [] o = "mint_py_from_sy"                 -> "mintPyFromSy"
      [] o = "redeem_py_to_sy"                 -> "redeemPyToSy"

LiquidityGas == 500000
PyGas        == 300000

\* One gas limit for every operation.
GasLimitFlat(o) == LiquidityGas

GasLimit(o) == IF o \in {"mint_py_from_sy", "redeem_py_to_sy"} THEN PyGas ELSE LiquidityGas

\* What the node and the wallet may answer.
GasPrices    == {1, 20}
WalletAddr   == "0x1234567890123456789012345678901234567890"
Bytes        == {0, 171}
\* Bytes in a transaction hash.
HashLen == 1
Hashes       == [1..HashLen -> Bytes]
GasUsedVals  == {21000, 250000}
BlockNumbers == {12345, 12346}
\* A receipt's status field: 1 executed, 0 reverted.  web3 returns the
\* receipt of a reverted transaction like any other.
ReceiptStatus == {0, 1}

HexDigits == <<"0", "1", "2", "3", "4", "5", "6", "7",
               "8", "9", "a", "b", "c", "d", "e", "f">>

RECURSIVE Hex(_)
\* bytes.hex(): two lower-case hexadecimal digits per byte.
Hex(bs) ==
    IF bs = <<>> THEN <<>>
    ELSE <<HexDigits[(Head(bs) \div 16) + 1], HexDigits[(Head(bs) % 16) + 1]>>
         \o Hex(Tail(bs))

\* The order in which one call touches the wallet and the chain.
CallOrder == <<"get_wallet_address", "gas_price", "buildTransaction",
               "sign_transaction", "send_raw_transaction",
               "wait_for_transaction_receipt">>

Prefix(n) == SubSeq(CallOrder, 1, n)

\* A success record that leaves the block number out.
SuccessRecordPartial(h, r) ==
    [status           |-> "success",
     transaction_hash |-> Hex(h),
     gas_used         |-> r.gasUsed]

\* The record the operations return after the receipt.
SuccessRecord(h, r) ==
    [status           |-> "success",
     transaction_hash |-> Hex(h),
     gas_used         |-> r.gasUsed,
     block_number     |-> r.blockNumber]

\* The except clause with a retry: a failure sends the call back to signing.
HandleFailureRetrying(msg) ==
    /\ caught' = [str |-> msg]
    /\ IF pc \in {"built", "signed", "submitted"}
       THEN /\ pc' = "built"
            /\ UNCHANGED <<result, raised>>
       ELSE /\ pc' = "raised"
            /\ raised' = _handle_contract_error(msg).exc
            /\ UNCHANGED result

\* except Exception as e: _handle_contract_error(e)
\* The classifier's raise leaves the operation; were it to return, the
\* operation would fall off its end and return None.
HandleFailure(msg) ==
    LET out == _handle_contract_error(msg)
    IN  /\ caught' = [str |-> msg]
        /\ IF out.kind = "raise"
           THEN /\ pc' = "raised"
                /\ raised' = out.exc
                /\ UNCHANGED result
           ELSE /\ pc' = "returned"
                /\ result' = out.value
                /\ UNCHANGED raised

(***************************************************************************)
(* pendle.py: ApproxParams.  Amounts go up to 10^18, so an integer is held *)
(* as its sign and its decimal digits.                                     *)
(***************************************************************************)
RECURSIVE NatDigits(_)
NatDigits(n) == IF n < 10 THEN <<n>> ELSE NatDigits(n \div 10) \o <<n % 10>>

\* The integer n.
Big(n) == [neg |-> n < 0, digits |-> NatDigits(IF n < 0 THEN 0 - n ELSE n)]

\* 10**k
TenTo(k) == [neg |-> FALSE, digits |-> <<1>> \o [i \in 1..k |-> 0]]

\* create_approx_params with 10**17 as the default of guess_max.
CreateApproxParamsSmallGuessMax(kw) ==
    [guessMin      |-> GetOr(kw, "guess_min", Big(0)),
     guessMax      |-> GetOr(kw, "guess_max", TenTo(17)),
     guessOffchain |-> GetOr(kw, "guess_offchain", Big(0)),
     maxIteration  |-> GetOr(kw, "max_iteration", Big(256)),
     eps           |-> GetOr(kw, "eps", TenTo(15))]

\* create_approx_params(**kw): kw holds the arguments the caller supplied.
create_approx_params(kw) ==
    [guessMin      |-> GetOr(kw, "guess_min", Big(0)),
     guessMax      |-> GetOr(kw, "guess_max", TenTo(18)),
     guessOffchain |-> GetOr(kw, "guess_offchain", Big(0)),
     maxIteration  |-> GetOr(kw, "max_iteration", Big(256)),
     eps           |-> GetOr(kw, "eps", TenTo(15))]

\* approx_tuple = (guessMin, guessMax, guessOffchain, maxIteration, eps)
ApproxTupleDroppingOffchain(ap) ==
    <<ap.guessMin, ap.guessMax, ap.maxIteration, ap.eps>>

ApproxTuple(ap) ==
    <<ap.guessMin, ap.guessMax, ap.guessOffchain, ap.maxIteration, ap.eps>>

\* (swapData.swapType.value, extRouter, extCalldata, needScale)
SwapTuple(sd) == <<sd.swapType.value, sd.extRouter, sd.extCalldata, sd.needScale>>

\* token_input_tuple = (tokenIn, netTokenIn, tokenMintSy, pendleSwap, swap tuple)
TokenInputTuple(tok) ==
    <<tok.tokenIn, tok.netTokenIn, tok.tokenMintSy, tok.pendleSwap, SwapTuple(tok.swapData)>>

\* token_output_tuple = (tokenOut, minTokenOut, tokenRedeemSy, pendleSwap, swap tuple)
TokenOutputTuple(tok) ==
    <<tok.tokenOut, tok.minTokenOut, tok.tokenRedeemSy, tok.pendleSwap,
      SwapTuple(tok.swapData)>>

\* limit_data = (limitRouter, epsSkipMarket, normalFills, flashFills, optData)
EmptyLimitData == <<"0x0000000000000000000000000000000000000000", 0, <<>>, <<>>, <<>>>>

\* The operations whose router function takes limit-order data.
LimitOperations == {"add_liquidity_single_sy", "add_liquidity_single_token",
                    "remove_liquidity_single_sy", "remove_liquidity_single_token"}

\* Limit-order data handed over by the add operations only.
LimitDataAddOnly(o) ==
    IF o \in {"add_liquidity_single_sy", "add_liquidity_single_token"}
    THEN EmptyLimitData ELSE <<>>

\* The limit_data the operation o builds (<<>>: it builds none).
LimitData(o) == IF o \in LimitOperations THEN EmptyLimitData ELSE <<>>

\* The value the caller gave for the parameter  name  (an address or an
\* amount, handed on as it is).
Param(name) == [param |-> name]

\* The positional arguments of the router function of o.
Positional(o, ap, tok) ==
    CASE o = "add_liquidity_dual_sy_and_pt" ->
            <<Param("receiver"), Param("market"), Param("net_sy_desired"),
              Param("net_pt_desired"), Param("min_lp_out")>>
      [] o = "add_liquidity_single_sy" ->
            <<Param("receiver"), Param("market"), Param("net_sy_in"), Param("min_lp_out"),
              ApproxTuple(ap), LimitData(o)>>
      [] o = "add_liquidity_single_token" ->
            <<Param("receiver"), Param("market"), Param("min_lp_out"),
              ApproxTuple(ap), TokenInputTuple(tok), LimitData(o)>>
      [] o = "remove_liquidity_dual_sy_and_pt" ->
            <<Param("receiver"), Param("market"), Param("net_lp_to_remove"),
              Param("min_sy_out"), Param("min_pt_out")>>
      [] o = "remove_liquidity_single_sy" ->
            <<Param("receiver"), Param("market"), Param("net_lp_to_remove"),
              Param("min_sy_out"), LimitData(o)>>
      [] o = "remove_liquidity_single_token" ->
            <<Param("receiver"), Param("market"), Param("net_lp_to_remove"),
              TokenOutputTuple(tok), LimitData(o)>>
      [] o = "mint_py_from_sy" ->
            <<Param("receiver"), Param("yt_address"), Param("net_sy_in")>>
      [] o = "redeem_py_to_sy" ->
            <<Param("receiver"), Param("yt_address"), Param("net_py_in")>>

\* What the operation o hands to its router function: the positional
\* arguments, and the tuples among them by name (<<>>: the function takes
\* none).
RouterArgs(o, ap, tok) ==
    [positional |-> Positional(o, ap, tok),
     approx     |-> IF ap = None THEN <<>> ELSE ApproxTuple(ap),
     token      |-> IF tok = None THEN <<>>
                    ELSE IF o = "add_liquidity_single_token" THEN TokenInputTuple(tok)
                    ELSE TokenOutputTuple(tok),
     swapData   |-> IF tok = None THEN <<>> ELSE SwapTuple(tok.swapData),
     limit      |-> LimitData(o)]

\* The operations that take an ApproxParams, and the ones a direct caller
\* hands them.
ApproxOperations == {"add_liquidity_single_sy", "add_liquidity_single_token"}

DirectApproxParams ==
    {create_approx_params(<<>>),
     create_approx_params([guess_min |-> Big(100), guess_max |-> Big(1000000),
                           max_iteration |-> Big(128)]),
     create_approx_params([guess_min |-> Big(100), guess_max |-> Big(10)])}

ApproxArgsOf(o) == IF o \in ApproxOperations THEN DirectApproxParams ELSE {None}

\* The TokenInput and TokenOutput values a direct caller hands over.
DirectSwapData ==
    {[swapType |-> [name |-> "NONE", value |-> 0],
      extRouter |-> "0x0000000000000000000000000000000000000000",
      extCalldata |-> <<>>, needScale |-> FALSE],
     [swapType |-> [name |-> "KYBERSWAP", value |-> 1],
      extRouter |-> "0xRouter", extCalldata |-> <<171>>, needScale |-> TRUE]}

DirectTokenInputs ==
    {[tokenIn |-> "0xTokenIn", netTokenIn |-> TenTo(18), tokenMintSy |-> "0xTokenMintSy",
      pendleSwap |-> "0xPendleSwap", swapData |-> sd] : sd \in DirectSwapData}

DirectTokenOutputs ==
    {[tokenOut |-> "0xTokenOut", minTokenOut |-> Big(1), tokenRedeemSy |-> "0xTokenRedeemSy",
      pendleSwap |-> "0xPendleSwap", swapData |-> sd] : sd \in DirectSwapData}

TokenArgsOf(o) ==
    CASE o = "add_liquidity_single_token"    -> DirectTokenInputs
      [] o = "remove_liquidity_single_token" -> DirectTokenOutputs
      [] OTHER                               -> {None}

\* An operation that starts with  check_contract_or_return_error().
GuardedEnter(o, ap, tok) ==
    /\ pc = "idle"
    /\ op' = o
    /\ approx_params' = ap
    /\ token_arg' = tok
    /\ IF check_contract_or_return_error # None
       THEN /\ pc' = "returned"
            /\ result' = check_contract_or_return_error
            /\ UNCHANGED <<caught, raised>>
       ELSE /\ pc' = "entered"
            /\ UNCHANGED <<caught, result, raised>>
    /\ UNCHANGED <<PENDLE_CONTRACT_ADDRESS, gas_price, chain_log, transaction, tx_hash, receipt,
                   router_args>>

GuardedEntry(o) ==
    /\ \E ap \in ApproxArgsOf(o), tok \in TokenArgsOf(o) : GuardedEnter(o, ap, tok)
    /\ UNCHANGED nonChainVars

\* An operation that goes straight into its try block: with no binding,
\* pendle_contract.functions  raises inside it.
UnguardedEnter(o, ap, tok) ==
    /\ pc = "idle"
    /\ op' = o
    /\ approx_params' = ap
    /\ token_arg' = tok
    /\ IF pendle_contract = None
       THEN HandleFailure(NoneTypeMessage)
       ELSE /\ pc' = "entered"
            /\ UNCHANGED <<caught, result, raised>>
    /\ UNCHANGED <<PENDLE_CONTRACT_ADDRESS, gas_price, chain_log, transaction, tx_hash, receipt,
                   router_args>>

UnguardedEntry(o) ==
    /\ \E ap \in ApproxArgsOf(o), tok \in TokenArgsOf(o) : UnguardedEnter(o, ap, tok)
    /\ UNCHANGED nonChainVars

add_liquidity_dual_sy_and_pt    == GuardedEntry("add_liquidity_dual_sy_and_pt")
add_liquidity_single_sy         == GuardedEntry("add_liquidity_single_sy")
add_liquidity_single_token      == UnguardedEntry("add_liquidity_single_token")
remove_liquidity_dual_sy_and_pt == UnguardedEntry("remove_liquidity_dual_sy_and_pt")
remove_liquidity_single_sy      == UnguardedEntry("remove_liquidity_single_sy")
remove_liquidity_single_token   == UnguardedEntry("remove_liquidity_single_token")
mint_py_from_sy                 == GuardedEntry("mint_py_from_sy")
redeem_py_to_sy                 == UnguardedEntry("redeem_py_to_sy")

\* pendle_contract.functions.<fn>(...).buildTransaction({'from': get_wallet_address(),
\*     'gas': ..., 'gasPrice': web3.eth.gas_price})
BuildOk ==
    /\ pc = "entered"
    /\ transaction' = [function |-> RouterFunction(op), from |-> WalletAddr,
                       gas |-> GasLimit(op), gasPrice |-> gas_price]
    /\ chain_log' = Prefix(3)
    /\ pc' = "built"
    /\ router_args' = RouterArgs(op, approx_params, token_arg)
    /\ UNCHANGED <<nonChainVars, PENDLE_CONTRACT_ADDRESS, gas_price, op, tx_hash, receipt, caught, result,
                   raised, approx_params, token_arg>>

\* The build raises: in the router function call (n = 0), in
\* get_wallet_address (1), in the gas price read (2) or in buildTransaction (3).
BuildFail ==
    /\ pc = "entered"
    /\ \E n \in 0..3 : chain_log' = Prefix(n)
    /\ \E m \in MessagesUpTo(MaxStepMsgLen) : HandleFailure(m)
    /\ router_args' = RouterArgs(op, approx_params, token_arg)
    /\ UNCHANGED <<nonChainVars, PENDLE_CONTRACT_ADDRESS, gas_price, op, transaction, tx_hash, receipt,
                   approx_params, token_arg>>

\* The network's gas price moves.
GasPriceChange ==
    /\ gas_price' \in GasPrices \ {gas_price}
    /\ UNCHANGED <<nonChainVars, PENDLE_CONTRACT_ADDRESS, op, pc, chain_log, transaction,
                   tx_hash, receipt, caught, result, raised, approx_params, token_arg,
                   router_args>>

\* web3.eth.account.sign_transaction(transaction, WALLET_PRIVATE_KEY)
SignOk ==
    /\ pc = "built"
    /\ chain_log' = Append(chain_log, "sign_transaction")
    /\ pc' = "signed"
    /\ UNCHANGED <<nonChainVars, PENDLE_CONTRACT_ADDRESS, gas_price, approx_params, token_arg, router_args, op, transaction, tx_hash, receipt, caught, result, raised>>

SignFail ==
    /\ pc = "built"
    /\ chain_log' = Append(chain_log, "sign_transaction")
    /\ \E m \in MessagesUpTo(MaxStepMsgLen) : HandleFailure(m)
    /\ UNCHANGED <<nonChainVars, PENDLE_CONTRACT_ADDRESS, gas_price, approx_params, token_arg, router_args, op, transaction, tx_hash, receipt>>

\* tx_hash = web3.eth.send_raw_transaction(signed_txn.rawTransaction)
SubmitOk ==
    /\ pc = "signed"
    /\ chain_log' = Append(chain_log, "send_raw_transaction")
    /\ \E h \in Hashes : tx_hash' = h
    /\ pc' = "submitted"
    /\ UNCHANGED <<nonChainVars, PENDLE_CONTRACT_ADDRESS, gas_price, approx_params, token_arg, router_args, op, transaction, receipt, caught, result, raised>>

SubmitFail ==
    /\ pc = "signed"
    /\ chain_log' = Append(chain_log, "send_raw_transaction")
    /\ \E m \in MessagesUpTo(MaxStepMsgLen) : HandleFailure(m)
    /\ UNCHANGED <<nonChainVars, PENDLE_CONTRACT_ADDRESS, gas_price, approx_params, token_arg, router_args, op, transaction, tx_hash, receipt>>

\* receipt = web3.eth.wait_for_transaction_receipt(tx_hash); return {...}
\* The receipt's status is not read.
WaitOk ==
    /\ pc = "submitted"
    /\ chain_log' = Append(chain_log, "wait_for_transaction_receipt")
    /\ \E s \in ReceiptStatus, g \in GasUsedVals, b \in BlockNumbers :
         LET r == [transactionHash |-> tx_hash, status |-> s,
                   gasUsed |-> g, blockNumber |-> b]
         IN  /\ receipt' = r
             /\ result' = SuccessRecord(tx_hash, r)
    /\ pc' = "returned"
    /\ UNCHANGED <<nonChainVars, PENDLE_CONTRACT_ADDRESS, gas_price, approx_params, token_arg, router_args, op, transaction, tx_hash, caught, raised>>

WaitFail ==
    /\ pc = "submitted"
    /\ chain_log' = Append(chain_log, "wait_for_transaction_receipt")
    /\ \E m \in MessagesUpTo(MaxStepMsgLen) : HandleFailure(m)
    /\ UNCHANGED <<nonChainVars, PENDLE_CONTRACT_ADDRESS, gas_price, approx_params, token_arg, router_args, op, transaction, tx_hash, receipt>>

\* The caller, having got the result or the exception, makes its next call.
NextCall ==
    /\ pc \in {"returned", "raised"}
    /\ pc' = "idle"
    /\ op' = "none"
    /\ chain_log' = <<>>
    /\ transaction' = None
    /\ tx_hash' = <<>>
    /\ receipt' = None
    /\ caught' = None
    /\ result' = None
    /\ raised' = None
    /\ approx_params' = None
    /\ token_arg' = None
    /\ router_args' = None
    /\ UNCHANGED <<nonChainVars, PENDLE_CONTRACT_ADDRESS, gas_price>>

\* No tool is running.
ToolIdle ==
    /\ tool = "none"
    /\ kwargs = <<>>
    /\ swap_data = None
    /\ tool_out = None

\* No get_best_opportunities call is running.
OppIdle ==
    /\ opp_min = 0
    /\ opp_out = None

ChainIdle ==
    /\ op = "none"
    /\ pc = "idle"
    /\ chain_log = <<>>
    /\ transaction = None
    /\ tx_hash = <<>>
    /\ receipt = None
    /\ caught = None
    /\ result = None
    /\ raised = None
    /\ approx_params = None
    /\ token_arg = None
    /\ router_args = None
    /\ ToolIdle
    /\ OppIdle

ClassifyIdle ==
    /\ error_msg = <<>>
    /\ classified = None

ConvertIdle ==
    /\ conv_op = "none"
    /\ conv_pc = "idle"
    /\ conv_args = None
    /\ conv_posts = <<>>
    /\ conv_response = None
    /\ conv_outcome = None
    /\ conv_last = None
    /\ conv_repeat = FALSE

KeyIdle ==
    /\ call_a = None
    /\ call_b = None
    /\ key_a = <<>>
    /\ key_b = <<>>

\* No get_markets_batch call is running.
BatchIdle ==
    /\ batch_pc = "idle"
    /\ chain_ids = <<>>
    /\ limit = 0
    /\ chain_try = <<>>
    /\ chain_error = <<>>
    /\ results = <<>>
    /\ completed = <<>>
    /\ batch_log = <<>>
    /\ batch_out = None
    /\ batch_prev = None

\* The callers of the cached fetch.
Tasks == {"t1", "t2"}

\* A client just constructed: _cache = {}, no caller inside a fetch.
CacheIdle ==
    /\ now = 0
    /\ _cache = <<>>
    /\ task_pc = [t \in Tasks |-> "idle"]
    /\ task_req = [t \in Tasks |-> None]
    /\ cache_key = [t \in Tasks |-> <<>>]
    /\ cached = [t \in Tasks |-> None]
    /\ task_get = [t \in Tasks |-> None]
    /\ task_resp = [t \in Tasks |-> None]
    /\ task_out = [t \in Tasks |-> None]

InitChain ==
    /\ PENDLE_CONTRACT_ADDRESS \in ContractAddresses
    /\ gas_price \in GasPrices
    /\ ChainIdle
    /\ ClassifyIdle
    /\ ConvertIdle
    /\ KeyIdle
    /\ BatchIdle
    /\ CacheIdle

NextChain ==
    \/ add_liquidity_dual_sy_and_pt
    \/ add_liquidity_single_sy
    \/ add_liquidity_single_token
    \/ remove_liquidity_dual_sy_and_pt
    \/ remove_liquidity_single_sy
    \/ remove_liquidity_single_token
    \/ mint_py_from_sy
    \/ redeem_py_to_sy
    \/ BuildOk
    \/ BuildFail
    \/ SignOk
    \/ SignFail
    \/ SubmitOk
    \/ SubmitFail
    \/ WaitOk
    \/ WaitFail
    \/ GasPriceChange
    \/ NextCall

SpecChain == InitChain /\ [][NextChain]_vars

(***************************************************************************)
(* The classifier on its own: one message in, one outcome out.             *)
(***************************************************************************)
Classify ==
    /\ classified = None
    /\ classified' = _handle_contract_error(error_msg)
    /\ UNCHANGED <<nonClassifyVars, error_msg>>

InitClassify ==
    /\ PENDLE_CONTRACT_ADDRESS = "TBD"
    /\ gas_price = 1
    /\ ChainIdle
    /\ ConvertIdle
    /\ KeyIdle
    /\ BatchIdle
    /\ CacheIdle
    /\ error_msg \in MessagesUpTo(MaxMsgLen) \cup SeveralIdentifierMessages
    /\ classified = None

NextClassify == Classify

SpecClassify == InitClassify /\ [][NextClassify]_vars

(***************************************************************************)
(* pendle_api_client.py: the hosted conversion operations.                 *)
(* A Python value that may be None is a record: None, Str(s) or Num(n).    *)
(* A JSON number with a fractional part is held in millionths.             *)
(***************************************************************************)
Str(s) == [str |-> s]
Num(n) == [num |-> n]

Digits == <<"0", "1", "2", "3", "4", "5", "6", "7", "8", "9">>

RECURSIVE IntToStr(_)
\* str(n) for n >= 0: the decimal digits, most significant first.
IntToStr(n) ==
    IF n < 10 THEN <<Digits[n + 1]>>
    ELSE IntToStr(n \div 10) \o <<Digits[(n % 10) + 1]>>

\* f"{x * 100:.4f}%" for x = micro / 10^6, micro >= 0: x * 100 has exactly
\* four decimals.
FormatPercent4(micro) ==
    IntToStr(micro \div 10000)
    \o <<".">>
    \o <<Digits[((micro \div 1000) % 10) + 1], Digits[((micro \div 100) % 10) + 1],
         Digits[((micro \div 10) % 10) + 1], Digits[(micro % 10) + 1]>>
    \o <<"%">>

ChainIds      == {1, 42161}
MarketAddrs   == {"0xMarket"}
AmountsIn     == {"1000", "2000"}
ConvertArgs   == [chain_id : ChainIds, market_address : MarketAddrs,
                  receiver : {"0xReceiver"}, token_in : {"0xTokenIn"},
                  token_out : {"0xTokenOut"}, amount_in : AmountsIn,
                  slippage : {"0.005"},
                  amount_lp : {"700"}, amount_pt : {"300"}, amount_sy : {"400"},
                  amount_token : {"600"}, sy_address : {"0xSy"},
                  from_market : {"0xMarket"}, to_market : {"0xMarket2"}]

\* Operations addressed to a market, to an SY token, to the chain.
MarketOperations ==
    {"convert_swap", "convert_add_liquidity", "convert_add_liquidity_zpi",
     "convert_remove_liquidity", "convert_mint_pt_yt", "convert_redeem_pt_yt",
     "convert_add_liquidity_dual", "convert_remove_liquidity_dual"}
SyOperations == {"convert_mint_sy", "convert_redeem_sy"}
ChainOperations ==
    {"convert_rollover_pt", "convert_transfer_liquidity", "convert_transfer_liquidity_zpi"}

ConvertOperations == MarketOperations \cup SyOperations \cup ChainOperations

ConvertPath(o) ==
    CASE o = "convert_swap"                   -> "swap"
      [] o = "convert_add_liquidity"          -> "add-liquidity"
      [] o = "convert_add_liquidity_zpi"      -> "add-liquidity-zpi"
      [] o = "convert_remove_liquidity"       -> "remove-liquidity"
      [] o = "convert_mint_pt_yt"             -> "mint"
      [] o = "convert_redeem_pt_yt"           -> "redeem"
      [] o = "convert_mint_sy"                -> "mint"
      [] o = "convert_redeem_sy"              -> "redeem"
      [] o = "convert_rollover_pt"            -> "rollover"
      [] o = "convert_add_liquidity_dual"     -> "add-liquidity-dual"
      [] o = "convert_remove_liquidity_dual"  -> "remove-liquidity-dual"
      [] o = "convert_transfer_liquidity"     -> "transfer-liquidity"
      [] o = "convert_transfer_liquidity_zpi" -> "transfer-liquidity-zpi"

\* The endpoint of an operation.
ConvertEndpoint(o, a) ==
    IF o \in MarketOperations
    THEN <<"https://api.pendle.finance/convert/v1", "/v1/">> \o IntToStr(a.chain_id)
         \o <<"/markets/", a.market_address, "/", ConvertPath(o)>>
    ELSE IF o \in SyOperations
    THEN <<"https://api.pendle.finance/convert/v1", "/v1/">> \o IntToStr(a.chain_id)
         \o <<"/sy/", a.sy_address, "/", ConvertPath(o)>>
    ELSE <<"https://api.pendle.finance/convert/v1", "/v1/">> \o IntToStr(a.chain_id)
         \o <<"/", ConvertPath(o)>>

\* The JSON body of an operation.
ConvertBody(o, a) ==
    CASE o = "convert_swap" ->
           [receiver |-> a.receiver, tokenIn |-> a.token_in,
            tokenOut |-> a.token_out, amountIn |-> a.amount_in,
            slippage |-> a.slippage]
      [] o \in {"convert_add_liquidity", "convert_add_liquidity_zpi",
                "convert_mint_pt_yt", "convert_mint_sy"} ->
           [receiver |-> a.receiver, tokenIn |-> a.token_in,
            amountIn |-> a.amount_in, slippage |-> a.slippage]
      [] o = "convert_remove_liquidity" ->
           [receiver |-> a.receiver, amountLp |-> a.amount_lp,
            tokenOut |-> a.token_out, slippage |-> a.slippage]
      [] o = "convert_redeem_pt_yt" ->
           [receiver |-> a.receiver, amountPt |-> a.amount_pt,
            tokenOut |-> a.token_out, slippage |-> a.slippage]
      [] o = "convert_redeem_sy" ->
           [receiver |-> a.receiver, amountSy |-> a.amount_sy,
            tokenOut |-> a.token_out, slippage |-> a.slippage]
      [] o = "convert_rollover_pt" ->
           [fromMarket |-> a.from_market, toMarket |-> a.to_market,
            receiver |-> a.receiver, amountPt |-> a.amount_pt,
            slippage |-> a.slippage]
      [] o = "convert_add_liquidity_dual" ->
           [receiver |-> a.receiver, amountToken |-> a.amount_token,
            amountPt |-> a.amount_pt, slippage |-> a.slippage]
      [] o = "convert_remove_liquidity_dual" ->
           [receiver |-> a.receiver, amountLp |-> a.amount_lp,
            slippage |-> a.slippage]
      [] o \in {"convert_transfer_liquidity", "convert_transfer_liquidity_zpi"} ->
           [fromMarket |-> a.from_market, toMarket |-> a.to_market,
            receiver |-> a.receiver, amountLp |-> a.amount_lp,
            slippage |-> a.slippage]

\* The POST an operation issues: f"{convert_url}/v1/{chain_id}/markets/{market}/<path>"
\* with its JSON body.
PostRequest(o, a) == [url |-> ConvertEndpoint(o, a), json |-> ConvertBody(o, a)]

\* What the hosted service may answer: no answer (a transport error), or a
\* status with a body that is not JSON, a JSON list, or a JSON object.
Statuses == {200, 404, 500}

JsonObjects ==
    { [f \in fs |-> CASE f = "to"          -> Str("0xRouter")
                      [] f = "data"        -> d
                      [] f = "value"       -> Str("0")
                      [] f = "amountOut"   -> Str("990")
                      [] f = "amountLpOut" -> Str("500")
                      [] f = "priceImpact" -> p
                      [] f = "gas"         -> Str("210000")] :
        fs \in { {"to", "data", "value", "amountOut", "amountLpOut", "priceImpact", "gas"},
                 {"to", "data", "value", "amountOut", "amountLpOut", "gas"},
                 {"data", "priceImpact"} },
        d  \in {Str("0xcalldata1"), Str("0xcalldata2")},
        p  \in {Num(0), Num(1500), None} }

Bodies == {[json |-> "invalid"], [json |-> "list"]}
          \cup {[json |-> "object", object |-> obj] : obj \in JsonObjects}

Responses == {[kind |-> "transport_error"]}
             \cup [kind : {"http"}, status : Statuses, body : Bodies]

\* httpx.Response.is_success
IsSuccessStatus(st) == 200 <= st /\ st <= 299

MockSwapResult ==
    [transaction  |-> [to    |-> Str("0x1234567890123456789012345678901234567890"),
                       data  |-> Str("0x1234567890abcdef1234567890abcdef1234567890abcdef1234567890abcdef"),
                       value |-> Str("0x0")],
     amountOut    |-> Str("1000000000000000000"),
     priceImpact  |-> <<"0", ".", "1", "5", "%">>,
     minAmountOut |-> Str("995000000000000000"),
     gas          |-> Str("150000")]

MockZpiResult ==
    [transaction |-> [to    |-> Str("0x1234567890123456789012345678901234567890"),
                      data  |-> Str("0xabcdef1234567890abcdef1234567890abcdef1234567890abcdef1234567890"),
                      value |-> Str("0x0")],
     amountLpOut |-> Str("2000000000000000000"),
     priceImpact |-> "~0% (ZPI)",
     gas         |-> Str("180000")]

TransactionOf(data) ==
    [to |-> Get(data, "to"), data |-> Get(data, "data"), value |-> Get(data, "value")]

\* The normalised result of an operation for the JSON object data.
Normalized(o, data) ==
    CASE o = "convert_swap" ->
           [transaction  |-> TransactionOf(data),
            amountOut    |-> Get(data, "amountOut"),
            priceImpact  |-> FormatPercent4(GetOr(data, "priceImpact", Num(0)).num),
            minAmountOut |-> Get(data, "minAmountOut"),
            gas          |-> Get(data, "gas")]
      [] o = "convert_add_liquidity" ->
           [transaction |-> TransactionOf(data),
            amountLpOut |-> Get(data, "amountLpOut"),
            priceImpact |-> FormatPercent4(GetOr(data, "priceImpact", Num(0)).num),
            minLpOut    |-> Get(data, "minLpOut"),
            gas         |-> Get(data, "gas")]
      [] o \in {"convert_add_liquidity_zpi", "convert_transfer_liquidity_zpi"} ->
           [transaction |-> TransactionOf(data),
            amountLpOut |-> Get(data, "amountLpOut"),
            priceImpact |-> "~0% (ZPI)",
            gas         |-> Get(data, "gas")]
      [] o = "convert_remove_liquidity" ->
           [transaction    |-> TransactionOf(data),
            amountTokenOut |-> Get(data, "amountOut"),
            priceImpact    |-> FormatPercent4(GetOr(data, "priceImpact", Num(0)).num),
            minTokenOut    |-> Get(data, "minOut"),
            gas            |-> Get(data, "gas")]
      [] o = "convert_mint_pt_yt" ->
           [transaction |-> TransactionOf(data),
            amountPtOut |-> Get(data, "amountPtOut"),
            amountYtOut |-> Get(data, "amountYtOut"),
            gas         |-> Get(data, "gas")]
      [] o \in {"convert_redeem_pt_yt", "convert_redeem_sy"} ->
           [transaction    |-> TransactionOf(data),
            amountTokenOut |-> Get(data, "amountOut"),
            gas            |-> Get(data, "gas")]
      [] o = "convert_mint_sy" ->
           [transaction |-> TransactionOf(data),
            amountSyOut |-> Get(data, "amountSyOut"),
            gas         |-> Get(data, "gas")]
      [] o = "convert_rollover_pt" ->
           [transaction |-> TransactionOf(data),
            amountPtOut |-> Get(data, "amountPtOut"),
            priceImpact |-> FormatPercent4(GetOr(data, "priceImpact", Num(0)).num),
            gas         |-> Get(data, "gas")]
      [] o = "convert_add_liquidity_dual" ->
           [transaction |-> TransactionOf(data),
            amountLpOut |-> Get(data, "amountLpOut"),
            priceImpact |-> FormatPercent4(GetOr(data, "priceImpact", Num(0)).num),
            gas         |-> Get(data, "gas")]
      [] o = "convert_remove_liquidity_dual" ->
           [transaction    |-> TransactionOf(data),
            amountTokenOut |-> Get(data, "amountTokenOut"),
            amountPtOut    |-> Get(data, "amountPtOut"),
            gas            |-> Get(data, "gas")]
      [] o = "convert_transfer_liquidity" ->
           [transaction |-> TransactionOf(data),
            amountLpOut |-> Get(data, "amountLpOut"),
            gas         |-> Get(data, "gas")]

FormatsPriceImpact(o) ==
    o \in {"convert_swap", "convert_add_liquidity", "convert_remove_liquidity",
           "convert_rollover_pt", "convert_add_liquidity_dual"}

\* The words httpx puts before the status line of an HTTPStatusError, chosen
\* by status_code // 100.
ErrorType(st) ==
    CASE st \div 100 = 1 -> "Informational response"
      [] st \div 100 = 3 -> "Redirect response"
      [] st \div 100 = 4 -> "Client error"
      [] st \div 100 = 5 -> "Server error"

\* response.reason_phrase of the statuses the service answers with.
ReasonPhrase(st) ==
    CASE st = 200 -> "OK"
      [] st = 404 -> "Not Found"
      [] st = 500 -> "Internal Server Error"

\* str() of the HTTPStatusError response.raise_for_status() raises.
StatusErrorText(url, st) ==
    <<ErrorType(st), " '">> \o IntToStr(st) \o <<" ", ReasonPhrase(st), "' for url '">>
        \o url
        \o <<"'\nFor more information check: https://developer.mozilla.org/en-US/docs/Web/HTTP/Status/">>
        \o IntToStr(st)

\* client.post, raise_for_status, response.json() and the return statement:
\* the first of them that raises ends the sequence.  The text of an exception
\* is its str(); a body that is not JSON is text such as an HTML page, whose
\* first character already fails to parse.
PostAndNormalize(o, a, resp) ==
    IF resp.kind = "transport_error"
    THEN Raise(Exc("ConnectError", <<"All connection attempts failed">>, <<>>))
    ELSE IF ~IsSuccessStatus(resp.status)
    THEN Raise(Exc("HTTPStatusError", StatusErrorText(ConvertEndpoint(o, a), resp.status),
                   <<resp.status>>))
    ELSE IF resp.body.json = "invalid"
    THEN Raise(Exc("JSONDecodeError", <<"Expecting value: line 1 column 1 (char 0)">>, <<>>))
    ELSE IF resp.body.json = "list"
    THEN Raise(Exc("AttributeError", <<"'list' object has no attribute 'get'">>, <<>>))
    ELSE IF FormatsPriceImpact(o) /\ Get(resp.body.object, "priceImpact") = None
               /\ "priceImpact" \in DOMAIN resp.body.object
    THEN Raise(Exc("TypeError",
                   <<"unsupported operand type(s) for *: 'NoneType' and 'int'">>, <<>>))
    ELSE Return(Normalized(o, resp.body.object))

\* try: ... except Exception: return <mock>
WithMockFallback(out, mock) == IF out.kind = "raise" THEN Return(mock) ELSE out

ConvertOutcome(o, a, resp) ==
    CASE o = "convert_swap" ->
           WithMockFallback(PostAndNormalize(o, a, resp), MockSwapResult)
      [] o = "convert_add_liquidity" ->
           PostAndNormalize(o, a, resp)
      [] o = "convert_add_liquidity_zpi" ->
           WithMockFallback(PostAndNormalize(o, a, resp), MockZpiResult)
      [] OTHER ->
           PostAndNormalize(o, a, resp)

\* The operation runs up to its  await self.client.post(...).
ConvertStart(o) ==
    /\ conv_pc = "idle"
    /\ \E a \in ConvertArgs :
         /\ conv_args' = a
         /\ conv_posts' = Append(conv_posts, PostRequest(o, a))
         /\ conv_repeat' = (conv_last = PostRequest(o, a))
    /\ conv_op' = o
    /\ conv_pc' = "awaiting"
    /\ conv_last' = None
    /\ UNCHANGED <<nonConvertVars, conv_response, conv_outcome>>

convert_swap                   == ConvertStart("convert_swap")
convert_add_liquidity          == ConvertStart("convert_add_liquidity")
convert_add_liquidity_zpi      == ConvertStart("convert_add_liquidity_zpi")
convert_remove_liquidity       == ConvertStart("convert_remove_liquidity")
convert_mint_pt_yt             == ConvertStart("convert_mint_pt_yt")
convert_redeem_pt_yt           == ConvertStart("convert_redeem_pt_yt")
convert_mint_sy                == ConvertStart("convert_mint_sy")
convert_redeem_sy              == ConvertStart("convert_redeem_sy")
convert_rollover_pt            == ConvertStart("convert_rollover_pt")
convert_add_liquidity_dual     == ConvertStart("convert_add_liquidity_dual")
convert_remove_liquidity_dual  == ConvertStart("convert_remove_liquidity_dual")
convert_transfer_liquidity     == ConvertStart("convert_transfer_liquidity")
convert_transfer_liquidity_zpi == ConvertStart("convert_transfer_liquidity_zpi")

\* The POST completes, and the answer is also put into the cache under the path.
ConvertFinishCaching ==
    /\ conv_pc = "awaiting"
    /\ \E resp \in Responses :
         /\ conv_response' = resp
         /\ conv_outcome' = ConvertOutcome(conv_op, conv_args, resp)
    /\ conv_pc' = "done"
    /\ _cache' = [k \in DOMAIN _cache \cup {<<ConvertPath(conv_op)>>} |->
                    IF k = <<ConvertPath(conv_op)>>
                    THEN [data |-> conv_outcome', timestamp |-> now]
                    ELSE _cache[k]]
    /\ UNCHANGED <<chainVars, classifyVars, keyVars, batchVars, toolVars, oppVars, gas_price, now, task_pc, task_req, cache_key,
                   cached, task_get, task_resp, task_out, conv_op, conv_args, conv_posts,
                   conv_last, conv_repeat>>

\* The POST completes and the operation runs to its end.
ConvertFinish ==
    /\ conv_pc = "awaiting"
    /\ \E resp \in Responses :
         /\ conv_response' = resp
         /\ conv_outcome' = ConvertOutcome(conv_op, conv_args, resp)
    /\ conv_pc' = "done"
    /\ UNCHANGED <<nonConvertVars, conv_op, conv_args, conv_posts, conv_last, conv_repeat>>

\* The caller makes its next conversion call.
ConvertNextCall ==
    /\ conv_pc = "done"
    /\ conv_op' = "none"
    /\ conv_pc' = "idle"
    /\ conv_args' = None
    /\ conv_posts' = <<>>
    /\ conv_response' = None
    /\ conv_outcome' = None
    /\ conv_last' = conv_posts[1]
    /\ conv_repeat' = FALSE
    /\ UNCHANGED nonConvertVars

InitConvert ==
    /\ PENDLE_CONTRACT_ADDRESS = "TBD"
    /\ gas_price = 1
    /\ ChainIdle
    /\ ClassifyIdle
    /\ ConvertIdle
    /\ KeyIdle
    /\ BatchIdle
    /\ CacheIdle

NextConvert ==
    \/ convert_swap
    \/ convert_add_liquidity
    \/ convert_add_liquidity_zpi
    \/ convert_remove_liquidity
    \/ convert_mint_pt_yt
    \/ convert_redeem_pt_yt
    \/ convert_mint_sy
    \/ convert_redeem_sy
    \/ convert_rollover_pt
    \/ convert_add_liquidity_dual
    \/ convert_remove_liquidity_dual
    \/ convert_transfer_liquidity
    \/ convert_transfer_liquidity_zpi
    \/ ConvertFinish
    \/ ConvertNextCall

SpecConvert == InitConvert /\ [][NextConvert]_vars

(***************************************************************************)
(* pendle_api_client.py: the cache key.                                    *)
(* An endpoint, a parameter name and a string value are sequences of       *)
(* characters; params is a dict, held as the sequence of its (name, value) *)
(* items in insertion order, the names distinct.                           *)
(***************************************************************************)
\* The code points of the characters used.
CodePoint == [c \in {" ", "\"", ",", "1", "2", ":", "\\", "_", "a", "b", "d", "e",
                      "i", "l", "m", "o", "r", "t", "y", "{", "}"} |->
                CASE c = " "  -> 32
                  [] c = "\"" -> 34
                  [] c = ","  -> 44
                  [] c = "1"  -> 49
                  [] c = "2"  -> 50
                  [] c = ":"  -> 58
                  [] c = "\\" -> 92
                  [] c = "_"  -> 95
                  [] c = "a"  -> 97
                  [] c = "b"  -> 98
                  [] c = "d"  -> 100
                  [] c = "e"  -> 101
                  [] c = "i"  -> 105
                  [] c = "l"  -> 108
                  [] c = "m"  -> 109
                  [] c = "o"  -> 111
                  [] c = "r"  -> 114
                  [] c = "t"  -> 116
                  [] c = "y"  -> 121
                  [] c = "{"  -> 123
                  [] c = "}"  -> 125]

RECURSIVE StrLess(_, _)
\* Python's  s < t  on strings: lexicographic by code point.
StrLess(s, t) ==
    IF t = <<>> THEN FALSE
    ELSE IF s = <<>> THEN TRUE
    ELSE IF Head(s) = Head(t) THEN StrLess(Tail(s), Tail(t))
    ELSE CodePoint[Head(s)] < CodePoint[Head(t)]

RECURSIVE InsertItem(_, _)
InsertItem(item, sorted) ==
    IF sorted = <<>> THEN <<item>>
    ELSE IF StrLess(Head(sorted)[1], item[1])
         THEN <<Head(sorted)>> \o InsertItem(item, Tail(sorted))
         ELSE <<item>> \o sorted

RECURSIVE SortItems(_)
\* sort_keys=True: the items ordered by name.
SortItems(items) ==
    IF items = <<>> THEN <<>>
    ELSE InsertItem(Head(items), SortItems(Tail(items)))

RECURSIVE Escape(_)
\* json's string escaping of the characters used: " and \ get a backslash.
Escape(s) ==
    IF s = <<>> THEN <<>>
    ELSE (IF Head(s) \in {"\"", "\\"} THEN <<"\\", Head(s)>> ELSE <<Head(s)>>)
         \o Escape(Tail(s))

Quoted(s) == <<"\"">> \o Escape(s) \o <<"\"">>

\* json.dumps of a value: a string quoted and escaped, an integer in decimal.
DumpValue(v) == IF "str" \in DOMAIN v THEN Quoted(v.str) ELSE IntToStr(v.num)

RECURSIVE DumpItems(_)
\* The items joined by ", ", each as  "name": value.
DumpItems(items) ==
    IF items = <<>> THEN <<>>
    ELSE Quoted(Head(items)[1]) \o <<":", " ">> \o DumpValue(Head(items)[2])
         \o (IF Tail(items) = <<>> THEN <<>> ELSE <<",", " ">> \o DumpItems(Tail(items)))

\* json.dumps(params) without sort_keys: the items in insertion order.
JsonDumpsUnsorted(params) == <<"{">> \o DumpItems(params) \o <<"}">>

\* json.dumps(params, sort_keys=True)
JsonDumps(params) == <<"{">> \o DumpItems(SortItems(params)) \o <<"}">>

\* f"{endpoint}:{json.dumps(params, sort_keys=True)}"
_get_cache_key(endpoint, params) == endpoint \o <<":">> \o JsonDumps(params)

\* Longest endpoint of the requests whose keys are compared.
MaxEndpointLen == 1
EndpointChars == {"a", ":", "{"}
Endpoints     == UNION {[1..n -> EndpointChars] : n \in 0..MaxEndpointLen}
ParamNames    == {<<"a">>, <<"b">>}
ParamValues   == {Num(1), Num(12), Str(<<"1">>), Str(<<"a">>), Str(<<"\"">>)}

\* The dicts over ParamNames, in every insertion order.
ParamDicts ==
    {<<>>}
    \cup {<<<<n, v>>>> : n \in ParamNames, v \in ParamValues}
    \cup {<<<<n1, v1>>, <<n2, v2>>>> :
            n1 \in ParamNames, n2 \in ParamNames,
            v1 \in ParamValues, v2 \in ParamValues}

\* A dict has each name once.
DistinctNames(params) ==
    \A i, j \in 1..Len(params) : params[i][1] = params[j][1] => i = j

KeyCalls == [endpoint : Endpoints, params : {d \in ParamDicts : DistinctNames(d)}]

\* The first request's key is computed.
FirstKey ==
    /\ call_a # None
    /\ key_a = <<>>
    /\ key_a' = _get_cache_key(call_a.endpoint, call_a.params)
    /\ UNCHANGED <<nonKeyVars, call_a, call_b, key_b>>

\* A second request is made and its key computed.
SecondKey ==
    /\ key_a # <<>>
    /\ call_b = None
    /\ \E c \in KeyCalls :
         /\ call_b' = c
         /\ key_b' = _get_cache_key(c.endpoint, c.params)
    /\ UNCHANGED <<nonKeyVars, call_a, key_a>>

InitKey ==
    /\ PENDLE_CONTRACT_ADDRESS = "TBD"
    /\ gas_price = 1
    /\ ChainIdle
    /\ ClassifyIdle
    /\ ConvertIdle
    /\ CacheIdle
    /\ BatchIdle
    /\ call_a \in KeyCalls
    /\ call_b = None
    /\ key_a = <<>>
    /\ key_b = <<>>

NextKey ==
    \/ FirstKey
    \/ SecondKey

SpecKey == InitKey /\ [][NextKey]_vars

(***************************************************************************)
(* pendle_api_client.py: the TTL cache in front of the analytics GETs.     *)
(***************************************************************************)
_cache_ttl == 60

\* The instants at which the clock is read.
TimePoints == {0, 59, 60, 61, 120}

\* Parsed JSON payloads: a dict or a list with len entries.
EmptyDict == [type |-> "dict", len |-> 0, body |-> "{}"]
EmptyList == [type |-> "list", len |-> 0, body |-> "[]"]
Payloads  == {EmptyDict, EmptyList,
              [type |-> "dict", len |-> 1, body |-> "{results: [m1]}"],
              [type |-> "list", len |-> 1, body |-> "[m2]"]}

\* Python truth value of what _get_cached returned: None, {} and [] are false.
Truthy(v) == v # None /\ v.len # 0

\* "https://api.pendle.finance/core/v1", kept as one token.
base_url == <<"https://api.pendle.finance/core/v1">>

\* The analytics requests made: the same dict in two insertion orders, and
\* another endpoint without parameters.
CacheRequests ==
    {[endpoint |-> base_url \o <<"/", "a">>,
      params |-> <<<<<<"a">>, Num(1)>>, <<<<"b">>, Str(<<"a">>)>>>>],
     [endpoint |-> base_url \o <<"/", "a">>,
      params |-> <<<<<<"b">>, Str(<<"a">>)>>, <<<<"a">>, Num(1)>>>>],
     [endpoint |-> base_url \o <<"/", "b">>, params |-> <<>>]}

\* What the GET can come back with.
GetResponses ==
    {[kind |-> "transport_error"]}
    \cup [kind : {"http"}, status : Statuses,
          body : {[json |-> "invalid"]} \cup {[json |-> "ok", data |-> d] : d \in Payloads}]

\* _get_cached without the age test.
GetCachedAnyAge(key) == IF key \in DOMAIN _cache THEN _cache[key].data ELSE None

\* _get_cached(key): the data of an entry younger than ttl, else None.
_get_cached(key) ==
    IF key \in DOMAIN _cache
    THEN IF now - _cache[key].timestamp < _cache_ttl
         THEN _cache[key].data
         ELSE None
    ELSE None

\* _set_cache keeping the timestamp of the entry it overwrites.
SetCacheKeepingTimestamp(key, data) ==
    _cache' = [k \in DOMAIN _cache \cup {key} |->
                 IF k = key
                 THEN [data |-> data,
                       timestamp |-> IF key \in DOMAIN _cache
                                     THEN _cache[key].timestamp ELSE now]
                 ELSE _cache[k]]

\* _set_cache(key, data): self._cache[key] = (data, time.time())
_set_cache(key, data) ==
    _cache' = [k \in DOMAIN _cache \cup {key} |->
                 IF k = key THEN [data |-> data, timestamp |-> now] ELSE _cache[k]]

\* The characters a query string keeps as they are.
Unreserved ==
    {"a", "b", "c", "d", "e", "f", "g", "h", "i", "j", "k", "l", "m", "n", "o", "p",
     "q", "r", "s", "t", "u", "v", "w", "x", "y", "z",
     "A", "B", "C", "D", "E", "F", "G", "H", "I", "J", "K", "L", "M", "N", "O", "P",
     "Q", "R", "S", "T", "U", "V", "W", "X", "Y", "Z",
     "0", "1", "2", "3", "4", "5", "6", "7", "8", "9", "-", ".", "_", "~"}

UpperHexDigits == <<"0", "1", "2", "3", "4", "5", "6", "7",
                    "8", "9", "A", "B", "C", "D", "E", "F">>

RECURSIVE QuotePlus(_)
\* A name or value as the query string of the request URL writes it: a space
\* as "+", any other character outside Unreserved as "%" and its code point
\* in two hexadecimal digits.
QuotePlus(text) ==
    IF text = <<>> THEN <<>>
    ELSE LET c == Head(text)
         IN  (IF c \in Unreserved THEN <<c>>
              ELSE IF c = " " THEN <<"+">>
              ELSE <<"%", UpperHexDigits[(CodePoint[c] \div 16) + 1],
                          UpperHexDigits[(CodePoint[c] % 16) + 1]>>)
             \o QuotePlus(Tail(text))

\* The text of a parameter value: a string itself, an integer in decimal.
ParamText(v) == IF "str" \in DOMAIN v THEN v.str ELSE IntToStr(v.num)

RECURSIVE QueryItems(_)
\* name=value of every item, in insertion order, joined by "&".
QueryItems(items) ==
    IF items = <<>> THEN <<>>
    ELSE QuotePlus(Head(items)[1]) \o <<"=">> \o QuotePlus(ParamText(Head(items)[2]))
         \o (IF Tail(items) = <<>> THEN <<>> ELSE <<"&">> \o QueryItems(Tail(items)))

\* The URL of  self.client.get(endpoint, params=params): an empty params adds
\* no query.
RequestUrl(req) ==
    IF req.params = <<>> THEN req.endpoint
    ELSE req.endpoint \o <<"?">> \o QueryItems(req.params)

\* await self.client.get(endpoint, params=params); response.raise_for_status();
\* return response.json().  The text of an exception is its str(); a body
\* that is not JSON is text such as an HTML page, whose first character
\* already fails to parse.
GetOutcome(req, resp) ==
    IF resp.kind = "transport_error"
    THEN Raise(Exc("ConnectError", <<"All connection attempts failed">>, None))
    ELSE IF ~IsSuccessStatus(resp.status)
    THEN Raise(Exc("HTTPStatusError", StatusErrorText(RequestUrl(req), resp.status), None))
    ELSE IF resp.body.json = "invalid"
    THEN Raise(Exc("JSONDecodeError", <<"Expecting value: line 1 column 1 (char 0)">>, None))
    ELSE Return(resp.body.data)

\* _fetch_with_cache up to the await: key, lookup,  if cached: return cached,
\* otherwise the GET is sent.
FetchStartWith(t, req) ==
    /\ task_pc[t] = "idle"
    /\ LET key == _get_cache_key(req.endpoint, req.params)
           hit == _get_cached(key)
       IN  /\ task_req' = [task_req EXCEPT ![t] = req]
           /\ cache_key' = [cache_key EXCEPT ![t] = key]
           /\ cached' = [cached EXCEPT ![t] = hit]
           /\ IF Truthy(hit)
              THEN /\ task_pc' = [task_pc EXCEPT ![t] = "done"]
                   /\ task_out' = [task_out EXCEPT ![t] = Return(hit)]
                   /\ task_get' = [task_get EXCEPT ![t] = None]
              ELSE /\ task_pc' = [task_pc EXCEPT ![t] = "awaiting"]
                   /\ task_out' = [task_out EXCEPT ![t] = None]
                   /\ task_get' = [task_get EXCEPT ![t] = req]
    /\ UNCHANGED <<nonCacheVars, now, _cache, task_resp>>

FetchStart(t) == \E req \in CacheRequests : FetchStartWith(t, req)

\* _fetch_with_cache answering a failed GET with the entry it still holds
\* for the key, however old.
FetchFinishServingStale(t) ==
    /\ task_pc[t] = "awaiting"
    /\ \E resp \in GetResponses :
         LET out == GetOutcome(task_req[t], resp)
         IN  /\ task_resp' = [task_resp EXCEPT ![t] = resp]
             /\ IF out.kind = "return"
                THEN /\ task_out' = [task_out EXCEPT ![t] = out]
                     /\ _set_cache(cache_key[t], out.value)
                ELSE /\ task_out' = [task_out EXCEPT ![t] =
                                        IF cache_key[t] \in DOMAIN _cache
                                        THEN Return(_cache[cache_key[t]].data) ELSE out]
                     /\ UNCHANGED _cache
    /\ task_pc' = [task_pc EXCEPT ![t] = "done"]
    /\ UNCHANGED <<nonCacheVars, now, task_req, cache_key, cached, task_get>>

\* _fetch_with_cache after the await: a parsed answer is stored and returned,
\* anything else raises and leaves the cache alone.
FetchFinish(t) ==
    /\ task_pc[t] = "awaiting"
    /\ \E resp \in GetResponses :
         LET out == GetOutcome(task_req[t], resp)
         IN  /\ task_resp' = [task_resp EXCEPT ![t] = resp]
             /\ task_out' = [task_out EXCEPT ![t] = out]
             /\ IF out.kind = "return"
                THEN _set_cache(cache_key[t], out.value)
                ELSE UNCHANGED _cache
    /\ task_pc' = [task_pc EXCEPT ![t] = "done"]
    /\ UNCHANGED <<nonCacheVars, now, task_req, cache_key, cached, task_get>>

\* The caller has its answer and may call again.
FetchNextCall(t) ==
    /\ task_pc[t] = "done"
    /\ task_pc' = [task_pc EXCEPT ![t] = "idle"]
    /\ task_req' = [task_req EXCEPT ![t] = None]
    /\ cache_key' = [cache_key EXCEPT ![t] = <<>>]
    /\ cached' = [cached EXCEPT ![t] = None]
    /\ task_get' = [task_get EXCEPT ![t] = None]
    /\ task_resp' = [task_resp EXCEPT ![t] = None]
    /\ task_out' = [task_out EXCEPT ![t] = None]
    /\ UNCHANGED <<nonCacheVars, now, _cache>>

\* Time passes.
Tick ==
    /\ \E later \in TimePoints : later > now /\ now' = later
    /\ UNCHANGED <<nonCacheVars, _cache, task_pc, task_req, cache_key, cached,
                   task_get, task_resp, task_out>>

\* One caller at a time.
Fetch1      == FetchStart("t1")
Finish1     == FetchFinish("t1")
NextCall1   == FetchNextCall("t1")

InitCache ==
    /\ PENDLE_CONTRACT_ADDRESS = "TBD"
    /\ gas_price = 1
    /\ ChainIdle
    /\ ClassifyIdle
    /\ ConvertIdle
    /\ KeyIdle
    /\ BatchIdle
    /\ CacheIdle

NextCache ==
    \/ Fetch1
    \/ Finish1
    \/ NextCall1
    \/ Tick

SpecCache == InitCache /\ [][NextCache]_vars

(***************************************************************************)
(* Two get_best_opportunities calls running concurrently on one client.    *)
(* asyncio switches callers only at an await, so a caller runs FetchStart  *)
(* and FetchFinish each in one piece, in any interleaving with the other.  *)
(***************************************************************************)
\* The cached request of get_best_opportunities(chain_id, ...):
\* f"{base_url}/v1/{chain_id}/markets", {"limit": 100, "order_by": "liquidity:desc"}
OpportunitiesRequest(chain_id) ==
    [endpoint |-> base_url \o <<"/", "v", "1", "/">> \o IntToStr(chain_id)
                  \o <<"/", "m", "a", "r", "k", "e", "t", "s">>,
     params   |-> << <<<<"l", "i", "m", "i", "t">>, Num(100)>>,
                     <<<<"o", "r", "d", "e", "r", "_", "b", "y">>,
                       Str(<<"l", "i", "q", "u", "i", "d", "i", "t", "y", ":",
                             "d", "e", "s", "c">>)>> >>]

\* A caller enters get_best_opportunities and runs up to the await of the GET
\* (or to the return of the cached payload).
OpportunitiesStart ==
    \E t \in Tasks : \E chain_id \in ChainIds :
        FetchStartWith(t, OpportunitiesRequest(chain_id))

\* A caller's GET is answered and its fetch runs to the end.
OpportunitiesFinish == \E t \in Tasks : FetchFinish(t)

\* Time passes, both calls staying within one TTL of the first.
RaceTick ==
    /\ \E later \in TimePoints : later > now /\ later < _cache_ttl /\ now' = later
    /\ UNCHANGED <<nonCacheVars, _cache, task_pc, task_req, cache_key, cached,
                   task_get, task_resp, task_out>>

NextRace ==
    \/ OpportunitiesStart
    \/ OpportunitiesFinish
    \/ RaceTick

SpecRace == InitCache /\ [][NextRace]_vars

(***************************************************************************)
(* Conversions on a client whose cache may already hold entries.           *)
(***************************************************************************)
\* The cache after no fetch, or after one get_best_opportunities fetch at
\* time 0 that the upstream answered with payload d.
CacheAfterFetch ==
    {<<>>}
    \cup { [k \in {_get_cache_key(OpportunitiesRequest(1).endpoint,
                                   OpportunitiesRequest(1).params)} |->
              [data |-> d, timestamp |-> 0]] : d \in {EmptyList, CHOOSE x \in Payloads : x.len > 0} }

InitConvertCached ==
    /\ PENDLE_CONTRACT_ADDRESS = "TBD"
    /\ gas_price = 1
    /\ ChainIdle
    /\ ClassifyIdle
    /\ ConvertIdle
    /\ KeyIdle
    /\ BatchIdle
    /\ now = 0
    /\ _cache \in CacheAfterFetch
    /\ task_pc = [t \in Tasks |-> "idle"]
    /\ task_req = [t \in Tasks |-> None]
    /\ cache_key = [t \in Tasks |-> <<>>]
    /\ cached = [t \in Tasks |-> None]
    /\ task_get = [t \in Tasks |-> None]
    /\ task_resp = [t \in Tasks |-> None]
    /\ task_out = [t \in Tasks |-> None]

NextConvertCached ==
    \/ convert_swap
    \/ convert_add_liquidity
    \/ convert_add_liquidity_zpi
    \/ convert_remove_liquidity
    \/ convert_mint_pt_yt
    \/ convert_redeem_pt_yt
    \/ convert_mint_sy
    \/ convert_redeem_sy
    \/ convert_rollover_pt
    \/ convert_add_liquidity_dual
    \/ convert_remove_liquidity_dual
    \/ convert_transfer_liquidity
    \/ convert_transfer_liquidity_zpi
    \/ ConvertFinish
    \/ ConvertNextCall
    \/ Tick

SpecConvertCached == InitConvertCached /\ [][NextConvertCached]_vars

(***************************************************************************)
(* pendle_api_client.py: get_markets_batch.                                *)
(* A string is a sequence of pieces; a JSON answer is a list of records or *)
(* a dict; a record's values are Str, Num or None (JSON null).  APYs are   *)
(* counted in 1/10000 (0.0825 is Num(825)) and liquidity in whole units    *)
(* that are multiples of 10000, so that the two-decimal formats are exact. *)
(***************************************************************************)
ListJson(items)  == [json |-> "list", items |-> items]
DictJson(fields) == [json |-> "dict", fields |-> fields]

\* get_chain_name
get_chain_name(chain_id) ==
    CASE chain_id = 1     -> <<"Ethereum">>
      [] chain_id = 42161 -> <<"Arbitrum">>
      [] chain_id = 10    -> <<"Optimism">>
      [] chain_id = 56    -> <<"BSC">>
      [] chain_id = 5000  -> <<"Mantle">>
      [] OTHER            -> <<"Chain ">> \o IntToStr(chain_id)

RECURSIVE IntToHex(_)
\* f"{n:x}"
IntToHex(n) ==
    IF n < 16 THEN <<HexDigits[n + 1]>>
    ELSE IntToHex(n \div 16) \o <<HexDigits[(n % 16) + 1]>>

\* f"{n:040x}": padded with zeros on the left to 40 digits.
Hex40(n) == [i \in 1..(40 - Len(IntToHex(n))) |-> "0"] \o IntToHex(n)

\* f"{x * 100:.2f}%" for x = apy / 10000
FormatPercent2(apy) ==
    IntToStr(apy \div 100)
    \o <<".", Digits[((apy \div 10) % 10) + 1], Digits[(apy % 10) + 1], "%">>

\* f"${x / 1e6:.2f}M" for x a multiple of 10000
FormatMillions(x) ==
    <<"$">> \o IntToStr(x \div 1000000)
    \o <<".", Digits[((x \div 100000) % 10) + 1], Digits[((x \div 10000) % 10) + 1], "M">>

\* _get_mock_markets(chain_ids, limit)
MockPair(chain_id) ==
    << [address    |-> <<"0x">> \o Hex40(chain_id),
        name       |-> <<"USDC-PT-">> \o get_chain_name(chain_id),
        chain      |-> get_chain_name(chain_id),
        chainId    |-> chain_id,
        impliedAPY |-> <<"8.5%">>,
        lpAPY      |-> <<"12.3%">>,
        liquidity  |-> <<"$1.5M">>],
       [address    |-> <<"0x">> \o Hex40(chain_id) \o <<"1">>,
        name       |-> <<"ETH-PT-">> \o get_chain_name(chain_id),
        chain      |-> get_chain_name(chain_id),
        chainId    |-> chain_id,
        impliedAPY |-> <<"10.2%">>,
        lpAPY      |-> <<"15.7%">>,
        liquidity  |-> <<"$2.1M">>] >>

RECURSIVE MockList(_)
MockList(ids) == IF ids = <<>> THEN <<>> ELSE MockPair(Head(ids)) \o MockList(Tail(ids))

\* seq[:n]
Take(seq, n) == SubSeq(seq, 1, IF n < Len(seq) THEN n ELSE Len(seq))

_get_mock_markets(ids, lim) ==
    [markets |-> Take(MockList(ids), lim * Len(ids)), totalChains |-> Len(ids)]

\* Python's truth value of m.get(...): None and "" are false.
Present(v) == v # None /\ v.str # <<>>

\* One dict appended to all_markets, or the exception its construction raises.
NormalizeRecord(m, chain_id) ==
    LET implied == GetOr(m, "impliedApy", Num(800))
        lp      == GetOr(m, "aggregatedApy", Num(1200))
        liq     == GetOr(m, "liquidity", Num(1500000))
    IN  IF implied = None \/ lp = None
        THEN Raise(Exc("TypeError",
                       <<"unsupported operand type(s) for *: 'NoneType' and 'int'">>, None))
        ELSE IF liq = None
        THEN Raise(Exc("TypeError",
                       <<"unsupported operand type(s) for /: 'NoneType' and 'float'">>, None))
        ELSE Return(
          [address    |-> GetOr(m, "address", Str(<<"0x">> \o Hex40(chain_id))).str,
           name       |-> IF Present(Get(m, "name")) THEN m.name.str
                          ELSE IF Present(Get(m, "symbol")) THEN m.symbol.str
                          ELSE <<"Market-">> \o IntToStr(chain_id),
           chain      |-> get_chain_name(chain_id),
           chainId    |-> chain_id,
           impliedAPY |-> FormatPercent2(implied.num),
           lpAPY      |-> FormatPercent2(lp.num),
           liquidity  |-> FormatMillions(liq.num)])

RECURSIVE NormalizeAll(_, _)
\* The inner loop over markets[:limit]: the dicts appended, or the first
\* exception.
NormalizeAll(items, chain_id) ==
    IF items = <<>> THEN Return(<<>>)
    ELSE LET first == NormalizeRecord(Head(items), chain_id)
             rest  == NormalizeAll(Tail(items), chain_id)
         IN  IF first.kind = "raise" THEN first
             ELSE IF rest.kind = "raise" THEN rest
             ELSE Return(<<first.value>> \o rest.value)

\* markets = result.get("results", result) if isinstance(result, dict) else result
ExtractMarkets(answer) ==
    IF answer.json = "dict"
    THEN GetOr(answer.fields, "results", answer)
    ELSE answer

\* print(f"API error for chain {chain_id}: {result}")
ChainErrorLine(chain_id, exc) ==
    <<"API error for chain ">> \o IntToStr(chain_id) \o <<": ">> \o exc.text

\* print(f"API error: {e}")
ErrorLine(exc) == <<"API error: ">> \o exc.text

\* Merging in the order of completion.
CompletionOrder(n, done_order) == done_order

\* The order in which the results are merged: the order of the tasks handed
\* to gather, whatever the order in which they completed.
GatherOrder(n, done_order) == [i \in 1..n |-> i]

RECURSIVE MergeFrom(_, _, _, _, _, _)
\* The loop over zip(chain_ids, results) from position k of order on:
\* all_markets, the lines printed, and the exception that ended it (if any).
MergeFrom(k, order, ids, lim, res, acc) ==
    IF k > Len(order) THEN acc
    ELSE LET i == order[k]
         IN  IF res[i].kind = "raise"
             THEN MergeFrom(k + 1, order, ids, lim, res,
                            [acc EXCEPT !.log = Append(@, ChainErrorLine(ids[i], res[i].exc))])
             ELSE LET markets == ExtractMarkets(res[i].value)
                  IN  IF markets.json # "list"
                      THEN MergeFrom(k + 1, order, ids, lim, res, acc)
                      ELSE LET recs == NormalizeAll(Take(markets.items, lim), ids[i])
                           IN  IF recs.kind = "raise"
                               THEN [acc EXCEPT !.error = recs.exc]
                               ELSE MergeFrom(k + 1, order, ids, lim, res,
                                      [acc EXCEPT !.markets = @ \o recs.value])

\* The upstream records.
RecordA == [address |-> Str(<<"0xA">>), name |-> Str(<<"PT-A">>),
            impliedApy |-> Num(825), liquidity |-> Num(2340000)]
RecordB == [symbol |-> Str(<<"B">>), name |-> Str(<<>>), aggregatedApy |-> Num(1005)]
RecordNull == [address |-> Str(<<"0xC">>), liquidity |-> None]

\* What an endpoint may answer with status 200 and a JSON body.
MarketPayloads ==
    {ListJson(<<>>),
     ListJson(<<RecordA, RecordB>>),
     DictJson([results |-> ListJson(<<RecordB, RecordA>>)]),
     DictJson([message |-> Str(<<"ok">>)]),
     ListJson(<<RecordA, RecordNull>>)}

\* The ways one GET can fail: no answer, a status other than 200, a body that
\* is not JSON.
EndpointFailures ==
    {[kind |-> "exception", name |-> <<"ConnectError">>],
     [kind |-> "status",    name |-> IntToStr(500)],
     [kind |-> "exception", name |-> <<"JSONDecodeError">>]}

\* The three endpoint formats tried for a chain.
EndpointCount == 3

ChainIdLists == {<<1>>, <<42161, 1>>, <<1, 42161, 10>>}
Limits       == {1, 20}

\* get_markets_batch up to  await asyncio.gather(...): one task per chain,
\* each sending the GET to its first endpoint.
BatchStart ==
    /\ batch_pc = "idle"
    /\ \E ids \in ChainIdLists : \E lim \in Limits :
         /\ chain_ids' = ids
         /\ limit' = lim
         /\ chain_try' = [i \in 1..Len(ids) |-> 1]
         /\ chain_error' = [i \in 1..Len(ids) |-> None]
         /\ results' = [i \in 1..Len(ids) |-> None]
    /\ batch_pc' = "gathering"
    /\ completed' = <<>>
    /\ batch_log' = <<>>
    /\ batch_out' = None
    /\ UNCHANGED <<nonBatchVars, batch_prev>>

\* _try_multiple_endpoints: the GET of chain i is answered 200 with JSON,
\* which the task returns.
EndpointOk(i) ==
    /\ batch_pc = "gathering"
    /\ chain_try[i] > 0
    /\ \E payload \in MarketPayloads :
         results' = [results EXCEPT ![i] = Return(payload)]
    /\ chain_try' = [chain_try EXCEPT ![i] = 0]
    /\ chain_error' = [chain_error EXCEPT ![i] = None]
    /\ completed' = Append(completed, i)
    /\ UNCHANGED <<nonBatchVars, batch_pc, chain_ids, limit, batch_log, batch_out,
                   batch_prev>>

\* _try_multiple_endpoints: the GET of chain i fails; the next endpoint is
\* tried, and after the last one the task raises.
EndpointFail(i) ==
    /\ batch_pc = "gathering"
    /\ chain_try[i] > 0
    /\ \E f \in EndpointFailures :
         chain_error' = [chain_error EXCEPT ![i] = f]
    /\ IF chain_try[i] < EndpointCount
       THEN /\ chain_try' = [chain_try EXCEPT ![i] = @ + 1]
            /\ UNCHANGED <<results, completed>>
       ELSE /\ chain_try' = [chain_try EXCEPT ![i] = 0]
            /\ results' = [results EXCEPT ![i] =
                             Raise(Exc("Exception", <<"All endpoints failed">>, None))]
            /\ completed' = Append(completed, i)
    /\ UNCHANGED <<nonBatchVars, batch_pc, chain_ids, limit, batch_log, batch_out,
                   batch_prev>>

EndpointAnswered == \E i \in 1..Len(chain_ids) : EndpointOk(i)
EndpointFailed   == \E i \in 1..Len(chain_ids) : EndpointFail(i)

\* get_markets_batch after gather: the merge, the fallbacks and the return.
BatchMerge ==
    /\ batch_pc = "gathering"
    /\ \A i \in 1..Len(chain_ids) : chain_try[i] = 0
    /\ LET merged == MergeFrom(1, GatherOrder(Len(chain_ids), completed), chain_ids,
                               limit, results,
                               [markets |-> <<>>, log |-> <<>>, error |-> None])
       IN  IF merged.error # None
           THEN /\ batch_log' = Append(merged.log, ErrorLine(merged.error))
                /\ batch_out' = Return(_get_mock_markets(chain_ids, limit))
           ELSE /\ batch_log' = merged.log
                /\ batch_out' =
                     IF merged.markets = <<>>
                     THEN Return(_get_mock_markets(chain_ids, limit))
                     ELSE Return([markets |-> merged.markets,
                                  totalChains |-> Len(chain_ids)])
    /\ batch_pc' = "done"
    /\ UNCHANGED <<nonBatchVars, chain_ids, limit, chain_try, chain_error, results,
                   completed, batch_prev>>

\* The caller calls again.
BatchNextCall ==
    /\ batch_pc = "done"
    /\ batch_pc' = "idle"
    /\ chain_ids' = <<>>
    /\ limit' = 0
    /\ chain_try' = <<>>
    /\ chain_error' = <<>>
    /\ results' = <<>>
    /\ completed' = <<>>
    /\ batch_log' = <<>>
    /\ batch_out' = None
    /\ UNCHANGED <<nonBatchVars, batch_prev>>

InitBatch ==
    /\ PENDLE_CONTRACT_ADDRESS = "TBD"
    /\ gas_price = 1
    /\ ChainIdle
    /\ ClassifyIdle
    /\ ConvertIdle
    /\ KeyIdle
    /\ CacheIdle
    /\ BatchIdle

NextBatch ==
    \/ BatchStart
    \/ EndpointAnswered
    \/ EndpointFailed
    \/ BatchMerge
    \/ BatchNextCall

SpecBatch == InitBatch /\ [][NextBatch]_vars

(***************************************************************************)
(* get_markets_batch called again and again on one client.  batch_prev     *)
(* remembers the call before: its arguments when every chain's query       *)
(* succeeded.  No time passes here: each call is made within the 60        *)
(* seconds after the one before.                                           *)
(***************************************************************************)
BatchCallAgain ==
    /\ batch_pc = "done"
    /\ batch_pc' = "idle"
    /\ chain_ids' = <<>>
    /\ limit' = 0
    /\ chain_try' = <<>>
    /\ chain_error' = <<>>
    /\ results' = <<>>
    /\ completed' = <<>>
    /\ batch_log' = <<>>
    /\ batch_out' = None
    /\ batch_prev' =
          IF \A i \in 1..Len(chain_ids) : results[i].kind = "return"
          THEN [succeeded |-> TRUE, chain_ids |-> chain_ids, limit |-> limit, at |-> now]
          ELSE [succeeded |-> FALSE]
    /\ UNCHANGED nonBatchVars

NextBatchRepeat ==
    \/ BatchStart
    \/ EndpointAnswered
    \/ EndpointFailed
    \/ BatchMerge
    \/ BatchCallAgain

SpecBatchRepeat == InitBatch /\ [][NextBatchRepeat]_vars

(***************************************************************************)
(* Claims about the direct-chain operations (SpecChain).                   *)
(***************************************************************************)
IsSuccess(r) == "status" \in DOMAIN r /\ r.status = "success"

\* C1: with no router binding every direct-chain operation returns the
\* structured unavailable result, raises nothing and touches neither the
\* wallet nor the chain.
C1_UnavailableWhenUnbound ==
    (pendle_contract = None /\ op # "none") =>
        /\ pc = "returned"
        /\ result = UnavailableResult
        /\ raised = None
        /\ chain_log = <<>>

\* C3: with a bound router, an operation one of whose steps raised ends by
\* raising one error of the PendleError family and returns nothing.
C3_FailureRaisesClassified ==
    (pendle_contract # None /\ caught # None) =>
        /\ pc = "raised"
        /\ raised # None
        /\ raised.cls \in PendleErrorFamily
        /\ result = None

C3_Witness ==
    /\ pendle_contract # None
    /\ caught = [str |-> <<"SomeOtherError">>]
    /\ chain_log = Prefix(5)
    /\ pc = "raised"
    /\ raised = Exc("PendleError", "Contract error: ", <<"SomeOtherError">>)

\* C4: a transaction whose receipt reports a revert never yields a success
\* record: the call ends Failed with a classified error.
C4_RevertNeverSuccess ==
    (receipt # None /\ receipt.status = 0) =>
        /\ ~IsSuccess(result)
        /\ pc = "raised"
        /\ raised # None
        /\ raised.cls \in PendleErrorFamily

\* C5: the steps of a call happen in the order build, sign, submit, wait,
\* each at most once; a failed step is followed by no other step; Confirmed
\* and Failed are terminal and exclude each other.
StepOrderState ==
    /\ chain_log = Prefix(Len(chain_log))
    /\ pc = "built" => chain_log = Prefix(3)
    /\ pc = "signed" => chain_log = Prefix(4)
    /\ pc = "submitted" => chain_log = Prefix(5)
    /\ IsSuccess(result) => (pc = "returned" /\ chain_log = CallOrder)
    /\ ~(IsSuccess(result) /\ raised # None)
    /\ pc = "raised" <=> raised # None

StepOrderStep ==
    /\ pc = "entered" => pc' \in {"entered", "built", "raised"}
    /\ pc = "built" => pc' \in {"built", "signed", "raised"}
    /\ pc = "signed" => pc' \in {"signed", "submitted", "raised"}
    /\ pc = "submitted" => pc' \in {"submitted", "returned", "raised"}
    /\ pc \in {"returned", "raised"} => (pc' = "idle" \/ UNCHANGED chainVars)
    /\ caught # None => (pc' = "idle" \/ chain_log' = chain_log)

C5_StepOrder == [][StepOrderStep /\ StepOrderState']_vars

C5_Witness ==
    /\ pc = "raised"
    /\ chain_log = Prefix(4)
    /\ caught # None

\* C6: a success record is returned only after the receipt for the hash
\* this call's submission returned, and it carries that hash, and the
\* receipt's gas used and block number, all three.
ResultFields == {"status", "transaction_hash", "gas_used", "block_number"}

C6_SuccessAfterReceipt ==
    /\ IsSuccess(result) =>
        /\ pc = "returned"
        /\ chain_log = CallOrder
        /\ tx_hash \in Hashes
        /\ receipt # None
        /\ receipt.transactionHash = tx_hash
        /\ result = [status           |-> "success",
                     transaction_hash |-> Hex(tx_hash),
                     gas_used         |-> receipt.gasUsed,
                     block_number     |-> receipt.blockNumber]
    /\ (DOMAIN result \cap ResultFields # {}) => DOMAIN result = ResultFields

C6_Witness ==
    /\ IsSuccess(result)
    /\ receipt.status = 1
    /\ tx_hash = <<171>>
    /\ result.transaction_hash = <<"a", "b">>
    /\ result.gas_used = 250000

(***************************************************************************)
(* Claims about the classifier (SpecClassify).                             *)
(***************************************************************************)
ErrorFor(id) ==
    CASE id = MarketExpired
           -> Exc("MarketExpiredError", "Market has expired", <<>>)
      [] id = MarketExchangeRateBelowOne
           -> Exc("PendleError", "Market exchange rate is below one", <<>>)
      [] id = MarketProportionTooHigh
           -> Exc("PendleError", "Market proportion is too high", <<>>)
      [] id = MarketZeroAmountsInput
           -> Exc("InvalidParametersError", "Zero amounts provided for input", <<>>)
      [] id = MarketZeroAmountsOutput
           -> Exc("InvalidParametersError", "Zero amounts provided for output", <<>>)

CatchAll(msg) == Exc("PendleError", "Contract error: ", msg)

Precedence == <<MarketExpired, MarketExchangeRateBelowOne, MarketProportionTooHigh,
                MarketZeroAmountsInput, MarketZeroAmountsOutput>>

\* The kind the classifier is to produce for an identifier.
NamedKind(id) ==
    CASE id = MarketExpired              -> "MarketExpired"
      [] id = MarketExchangeRateBelowOne -> "MarketExchangeRateBelowOne"
      [] id = MarketProportionTooHigh    -> "MarketProportionTooHigh"
      [] id = MarketZeroAmountsInput     -> "InvalidParameters"
      [] id = MarketZeroAmountsOutput    -> "InvalidParameters"

\* The kind a caller sees in a raised error, which is its class: the base
\* class PendleError is the generic kind, that of the catch-all.
KindOf(exc) ==
    CASE exc.cls = "MarketExpiredError"       -> "MarketExpired"
      [] exc.cls = "InvalidParametersError"   -> "InvalidParameters"
      [] exc.cls = "InsufficientBalanceError" -> "InsufficientBalance"
      [] exc.cls = "PendleError"              -> "ProtocolError"

\* C7: every message containing an identifier is classified as the error
\* of that identifier's kind, a kind other than the catch-all's, the
\* zero-amount ones with their message; a message containing none of the
\* identifiers is classified as the generic error wrapping the message.
C7_EveryIdentifierMapped ==
    classified # None =>
        /\ \A id \in RevertIdentifiers :
             Contains(id, error_msg) =>
                 /\ classified.kind = "raise"
                 /\ KindOf(classified.exc) = NamedKind(id)
                 /\ KindOf(classified.exc) # KindOf(CatchAll(error_msg))
                 /\ id = MarketZeroAmountsInput =>
                        classified.exc.text = "Zero amounts provided for input"
                 /\ id = MarketZeroAmountsOutput =>
                        classified.exc.text = "Zero amounts provided for output"
        /\ (\A id \in RevertIdentifiers : ~Contains(id, error_msg))
             => classified = Raise(CatchAll(error_msg))

(***************************************************************************)
(* Claims about the hosted conversion operations (SpecConvert).            *)
(***************************************************************************)
UpstreamFailed(resp) ==
    \/ resp.kind = "transport_error"
    \/ ~IsSuccessStatus(resp.status)
    \/ resp.body.json = "invalid"

HasTransactionPayload(out) ==
    out.kind = "return" /\ "transaction" \in DOMAIN out.value

\* C2: convert_swap, answered with HTTP 500 (or any non-2xx or unparseable
\* response), raises and returns no transaction payload.
C2_FailedSwapRaises ==
    (conv_pc = "done" /\ conv_op = "convert_swap" /\ UpstreamFailed(conv_response)) =>
        /\ conv_outcome.kind = "raise"
        /\ ~HasTransactionPayload(conv_outcome)

(***************************************************************************)
(* Claims about the cache key (SpecKey).                                   *)
(***************************************************************************)
\* The set of (name, value) pairs of a dict.
PairSet(params) == {params[i] : i \in 1..Len(params)}

\* C10: two requests get the same cache key exactly when they have the same
\* endpoint and the same set of (name, value) pairs, in whatever order the
\* pairs were supplied.
C10_KeyOfEndpointAndPairs ==
    call_b # None =>
        ( key_a = key_b
          <=> ( /\ call_a.endpoint = call_b.endpoint
                /\ PairSet(call_a.params) = PairSet(call_b.params) ) )

C10_Witness ==
    /\ call_b # None
    /\ Len(call_a.params) = 2
    /\ call_a.params # call_b.params
    /\ PairSet(call_a.params) = PairSet(call_b.params)
    /\ call_a.endpoint = call_b.endpoint
    /\ key_a = key_b
    /\ key_a = <<"a", ":", "{", "\"", "a", "\"", ":", " ", "1", "2", ",", " ",
                 "\"", "b", "\"", ":", " ", "\"", "\\", "\"", "\"", "}">>

(***************************************************************************)
(* Claims about the TTL cache (SpecCache).                                 *)
(***************************************************************************)
\* The entry a lookup of key finds, whatever its age (None: no entry).
EntryAt(key) == IF key \in DOMAIN _cache THEN _cache[key] ELSE None

\* The step is caller t entering _fetch_with_cache.
Enters(t) == task_pc[t] = "idle" /\ task_pc'[t] # "idle"

\* C8: a read less than 60 seconds after the entry was stored returns the
\* stored payload and sends no upstream request; a read 60 seconds or more
\* after it sends the request, and the answer replaces the entry.
C8_TtlStep ==
    \A t \in Tasks :
      /\ Enters(t) =>
           LET e == EntryAt(cache_key'[t])
           IN  e # None =>
                 IF now - e.timestamp < _cache_ttl
                 THEN /\ task_pc'[t] = "done"
                      /\ task_out'[t] = Return(e.data)
                      /\ task_get'[t] = None
                 ELSE /\ task_pc'[t] = "awaiting"
                      /\ task_get'[t] = task_req'[t]
      /\ (task_pc[t] = "awaiting" /\ task_out'[t] # None /\ task_out'[t].kind = "return")
           => EntryAt(cache_key[t])' = [data |-> task_out'[t].value, timestamp |-> now]

C8_TtlRead == [][C8_TtlStep]_vars

\* C9: a call whose lookup found an unexpired entry returns that entry's
\* payload and sends no upstream request, whatever the payload.
C9_FreshEntryIsHit ==
    \A t \in Tasks :
      cached[t] # None =>
        /\ task_pc[t] = "done"
        /\ task_out[t] = Return(cached[t])
        /\ task_get[t] = None

(***************************************************************************)
(* Claims about concurrent cached reads (SpecRace).                        *)
(***************************************************************************)
\* Caller t's fetch returned a non-empty payload.
ReturnedPayload(t) ==
    /\ task_pc[t] = "done"
    /\ task_out[t].kind = "return"
    /\ Truthy(task_out[t].value)

\* C11: when two concurrent get_best_opportunities calls for the same chain,
\* made within 60 seconds from an empty cache, have both returned, exactly one
\* of them has sent an upstream request.
C11_OneUpstreamRequest ==
    \A t, u \in Tasks :
      ( /\ t # u
        /\ ReturnedPayload(t)
        /\ ReturnedPayload(u)
        /\ task_req[t] = task_req[u] )
      => Cardinality({w \in {t, u} : task_get[w] # None}) = 1

\* Every entry of the cache is a whole (payload, timestamp) pair.
EntriesComplete ==
    \A k \in DOMAIN _cache :
      /\ DOMAIN _cache[k] = {"data", "timestamp"}
      /\ _cache[k].data \in Payloads
      /\ _cache[k].timestamp \in TimePoints
      /\ _cache[k].timestamp <= now

\* Caller t's GET is answered in this step.
Finishes(t) == task_pc[t] = "awaiting" /\ task_pc'[t] = "done"

\* The step in which caller t's fetch ends: the payload of the answer to t's
\* own GET is returned to t and is, with the time of this write, the entry of
\* t's key; every other
\* entry and the other caller's answer stay as they were; a failed fetch
\* writes nothing.
OwnWriteStep(t) ==
    /\ \A u \in Tasks \ {t} : task_out'[u] = task_out[u]
    /\ IF UpstreamFailed(task_resp'[t])
       THEN task_out'[t].kind = "raise"
       ELSE task_out'[t] = Return(task_resp'[t].body.data)
    /\ IF task_out'[t].kind = "return"
       THEN /\ DOMAIN _cache' = DOMAIN _cache \cup {cache_key[t]}
            /\ _cache'[cache_key[t]] = [data |-> task_out'[t].value, timestamp |-> now]
            /\ \A k \in DOMAIN _cache \ {cache_key[t]} : _cache'[k] = _cache[k]
       ELSE _cache' = _cache

\* C12: when two concurrent reads miss on the same key both may fetch and both
\* write; the cache always holds whole (payload, timestamp) pairs, the entry of
\* a key is the pair written by the caller that wrote last, and each caller is
\* returned the payload of its own fetch.
C12_LastWriterWins ==
    /\ []EntriesComplete
    /\ [][\A t \in Tasks : Finishes(t) => OwnWriteStep(t)]_vars

\* Both callers missed on the same key and fetched different payloads; the
\* entry is the second writer's, written after the first one's.
C12_Witness ==
    /\ task_req["t1"] = task_req["t2"]
    /\ task_get["t1"] # None
    /\ task_get["t2"] # None
    /\ ReturnedPayload("t1")
    /\ ReturnedPayload("t2")
    /\ task_out["t1"] # task_out["t2"]
    /\ task_out["t1"].value = task_resp["t1"].body.data
    /\ task_out["t2"].value = task_resp["t2"].body.data
    /\ cached["t1"] = None
    /\ cached["t2"] = None
    /\ _cache[cache_key["t1"]] = [data |-> task_out["t2"].value, timestamp |-> 59]

(***************************************************************************)
(* Claims about conversions and the cache (SpecConvertCached).             *)
(***************************************************************************)
\* A step of a conversion operation.
ConvertStep == conv_pc' # conv_pc

\* C13: a conversion operation leaves the cache map as it is, and every
\* invocation has sent exactly one HTTP POST, its own, also when it repeats the
\* arguments of the invocation before it; its outcome is the one of the answer
\* to that POST.
C13_ConversionsBypassCache ==
    /\ [][ConvertStep => _cache' = _cache]_vars
    /\ [](conv_pc # "idle" =>
            conv_posts = <<PostRequest(conv_op, conv_args)>>)
    /\ [](conv_pc = "done" =>
            conv_outcome = ConvertOutcome(conv_op, conv_args, conv_response))

\* A conversion repeated with the same arguments less than 60 seconds after
\* the cache entry was written has sent its POST and got its own answer.
C13_Witness ==
    /\ conv_pc = "done"
    /\ conv_repeat
    /\ conv_op = "convert_remove_liquidity"
    /\ Len(conv_posts) = 1
    /\ _cache # <<>>
    /\ now = 59
    /\ conv_outcome.kind = "return"

(***************************************************************************)
(* Claims about get_markets_batch (SpecBatch).                             *)
(***************************************************************************)
Positions == 1..Len(chain_ids)

QuerySucceeded(i) == results[i].kind = "return"
QueryFailed(i)    == results[i].kind = "raise"

\* The records of chain i's answer that count: the first limit of the list,
\* or of the list under "results".
RecordsOf(i) ==
    IF ~QuerySucceeded(i) THEN <<>>
    ELSE LET answer == results[i].value
             list   == IF answer.json = "list" THEN answer.items
                       ELSE IF "results" \in DOMAIN answer.fields
                       THEN answer.fields.results.items
                       ELSE <<>>
         IN  SubSeq(list, 1, IF limit < Len(list) THEN limit ELSE Len(list))

RECURSIVE ChainIdsFrom(_)
\* For the chains from position i on, in the caller's order: the chain id of
\* each record that counts.
ChainIdsFrom(i) ==
    IF i > Len(chain_ids) THEN <<>>
    ELSE [k \in 1..Len(RecordsOf(i)) |-> chain_ids[i]] \o ChainIdsFrom(i + 1)

\* C14: when some chains' queries fail and at least one succeeds with records,
\* get_markets_batch returns, without raising, one record for each record of a
\* succeeding chain and none for a failing chain, and totalChains is the
\* number of chain identifiers supplied.
C14_FailingChainsLeftOut ==
    ( /\ batch_pc = "done"
      /\ \E i \in Positions : QueryFailed(i)
      /\ \E i \in Positions : RecordsOf(i) # <<>> )
    => /\ batch_out.kind = "return"
       /\ batch_out.value.totalChains = Len(chain_ids)
       /\ [k \in 1..Len(batch_out.value.markets) |-> batch_out.value.markets[k].chainId]
            = ChainIdsFrom(1)

\* A record whose numeric fields, where present, are numbers.
WellFormed(m) ==
    \A f \in {"impliedApy", "aggregatedApy", "liquidity"} \cap DOMAIN m : m[f] # None

\* The address a record is returned with.
AddressOf(m, chain_id) ==
    IF "address" \in DOMAIN m THEN m.address.str ELSE <<"0x">> \o Hex40(chain_id)

RECURSIVE UpstreamOrderFrom(_)
\* (chain id, address) of the records that count, chain after chain in the
\* caller's order, each chain's records in the order of its answer.
UpstreamOrderFrom(i) ==
    IF i > Len(chain_ids) THEN <<>>
    ELSE [k \in 1..Len(RecordsOf(i)) |->
            <<chain_ids[i], AddressOf(RecordsOf(i)[k], chain_ids[i])>>]
         \o UpstreamOrderFrom(i + 1)

\* C15: the merged sequence is grouped by chain in the order of the caller's
\* chain list and keeps, within a chain, the order of the upstream answer, in
\* whatever order the per-chain requests completed.
C15_CallerOrder ==
    ( /\ batch_pc = "done"
      /\ \A i \in Positions : \A k \in 1..Len(RecordsOf(i)) : WellFormed(RecordsOf(i)[k])
      /\ \E i \in Positions : RecordsOf(i) # <<>> )
    => /\ batch_out.kind = "return"
       /\ [k \in 1..Len(batch_out.value.markets) |->
             <<batch_out.value.markets[k].chainId, batch_out.value.markets[k].address>>]
            = UpstreamOrderFrom(1)

\* Three chains answered in the reverse of the caller's order.
C15_Witness ==
    /\ batch_pc = "done"
    /\ chain_ids = <<1, 42161, 10>>
    /\ completed = <<3, 2, 1>>
    /\ limit = 20
    /\ results[1] = Return(ListJson(<<RecordA, RecordB>>))
    /\ results[2] = Return(DictJson([results |-> ListJson(<<RecordB, RecordA>>)]))
    /\ results[3] = Return(ListJson(<<RecordA, RecordB>>))
    /\ Len(batch_out.value.markets) = 6
    /\ batch_out.value.markets[3].chainId = 42161
    /\ batch_out.value.markets[3].name = <<"B">>
    /\ batch_out.value.markets[3].address = <<"0x">> \o Hex40(42161)

\* C16: every record returned comes from the answer of a succeeding chain: it
\* carries that chain's id and the address of one of its records.
C16_NoPlaceholderRecords ==
    ( batch_pc = "done" /\ batch_out.kind = "return" )
    => \A k \in 1..Len(batch_out.value.markets) :
         \E i \in Positions : \E j \in 1..Len(RecordsOf(i)) :
           /\ batch_out.value.markets[k].chainId = chain_ids[i]
           /\ batch_out.value.markets[k].address = AddressOf(RecordsOf(i)[j], chain_ids[i])

\* C17: for every chain whose query failed, a printed line names the chain
\* and the failure its last upstream request produced.
C17_FailureInspectable ==
    batch_pc = "done"
    => \A i \in Positions :
         QueryFailed(i) =>
           \E l \in 1..Len(batch_log) :
             /\ Contains(IntToStr(chain_ids[i]), batch_log[l])
             /\ Contains(chain_error[i].name, batch_log[l])

(***************************************************************************)
(* tools.py: the tools that build an ApproxParams or a SwapData and hand   *)
(* it to an operation of pendle.py.  A tool has no try/except of its own:  *)
(* what its helpers raise leaves the tool, what the operation returns or   *)
(* raises is the tool's outcome.                                           *)
(***************************************************************************)

\* class SwapType(Enum), in the order of definition.
SwapTypeMembers == <<"NONE", "KYBERSWAP", "ONE_INCH", "NATIVE", "UNISWAPV2",
                     "UNISWAPV3", "CURVE", "BALANCER", "BANCOR">>

\* str(n) for any integer n.
IntText(n) == IF n < 0 THEN <<"-">> \o IntToStr(0 - n) ELSE IntToStr(n)

\* SwapType(n): the member whose value is n; Enum raises ValueError when
\* there is none.
SwapType(n) ==
    IF n \in 0..(Len(SwapTypeMembers) - 1)
    THEN Return([name |-> SwapTypeMembers[n + 1], value |-> n])
    ELSE Raise(Exc("ValueError", IntText(n) \o <<" is not a valid SwapType">>, None))

\* create_swap_data(swap_type) with the other arguments at their defaults.
create_swap_data(swap_type) ==
    [swapType    |-> swap_type,
     extRouter   |-> "0x0000000000000000000000000000000000000000",
     extCalldata |-> <<>>,
     needScale   |-> FALSE]

\* create_token_input(token_in, net_token_in, token_mint_sy, pendle_swap,
\*                    swap_data) with the tool's positional arguments.
create_token_input(swap) ==
    [tokenIn |-> "0xTokenIn", netTokenIn |-> TenTo(18), tokenMintSy |-> "0xTokenMintSy",
     pendleSwap |-> "0xPendleSwap", swapData |-> swap]

\* create_token_output(token_out, min_token_out, token_redeem_sy,
\*                     pendle_swap, swap_data)
create_token_output(swap) ==
    [tokenOut |-> "0xTokenOut", minTokenOut |-> Big(1), tokenRedeemSy |-> "0xTokenRedeemSy",
     pendleSwap |-> "0xPendleSwap", swapData |-> swap]

\* The arguments a caller may supply, and the values tried for each.
ApproxNames == {"guess_min", "guess_max", "guess_offchain", "max_iteration", "eps"}

\* The values tried for the argument k, in a fixed order.
ArgValues(k) ==
    CASE k = "guess_min"      -> <<Big(100), Big(0 - 1)>>
      [] k = "guess_max"      -> <<Big(10), Big(1000000)>>
      [] k = "guess_offchain" -> <<Big(50000)>>
      [] k = "max_iteration"  -> <<Big(128)>>
      [] k = "eps"            -> <<TenTo(12)>>
      [] k = "swap_type"      -> [i \in 1..(Len(SwapTypeMembers) + 2) |-> i - 2]

\* Every call that supplies some of the arguments  names.
ToolKwargs(names) ==
    UNION {{[k \in D |-> ArgValues(k)[c[k]]] :
               c \in {x \in [D -> 1..(Len(SwapTypeMembers) + 2)] :
                         \A k \in D : x[k] <= Len(ArgValues(k))}} : D \in SUBSET names}

\* PendleYieldTokenization.create_approx_params called on its own with any
\* of its arguments, or none: the ApproxParams comes back.
create_approx_params_call ==
    /\ tool = "none"
    /\ pc = "idle"
    /\ \E kw \in ToolKwargs(ApproxNames) :
        /\ tool' = "create_approx_params"
        /\ kwargs' = kw
        /\ tool_out' = Return(create_approx_params(kw))
    /\ UNCHANGED <<chainVars, nonToolVars, swap_data>>

\* create_approximation_params(guess_min=0, guess_max=10**18,
\*     guess_offchain=0, max_iteration=256, eps=10**15): the five values go
\* to create_approx_params and its fields come back as a dict.
create_approximation_params ==
    /\ tool = "none"
    /\ pc = "idle"
    /\ \E kw \in ToolKwargs(ApproxNames) :
        LET params == create_approx_params(
                          [guess_min      |-> GetOr(kw, "guess_min", Big(0)),
                           guess_max      |-> GetOr(kw, "guess_max", TenTo(18)),
                           guess_offchain |-> GetOr(kw, "guess_offchain", Big(0)),
                           max_iteration  |-> GetOr(kw, "max_iteration", Big(256)),
                           eps            |-> GetOr(kw, "eps", TenTo(15))])
        IN  /\ tool' = "create_approximation_params"
            /\ kwargs' = kw
            /\ tool_out' = Return([guess_min      |-> params.guessMin,
                                   guess_max      |-> params.guessMax,
                                   guess_offchain |-> params.guessOffchain,
                                   max_iteration  |-> params.maxIteration,
                                   eps            |-> params.eps])
    /\ UNCHANGED <<chainVars, nonToolVars, swap_data>>

\* add_liquidity_with_sy_only(receiver, market, net_sy_in, min_lp_out,
\*     guess_min=0, guess_max=10**18, max_iteration=256)
add_liquidity_with_sy_only ==
    /\ tool = "none"
    /\ \E kw \in ToolKwargs({"guess_min", "guess_max", "max_iteration"}) :
        /\ tool' = "add_liquidity_with_sy_only"
        /\ kwargs' = kw
        /\ GuardedEnter("add_liquidity_single_sy",
                        create_approx_params(
                            [guess_min     |-> GetOr(kw, "guess_min", Big(0)),
                             guess_max     |-> GetOr(kw, "guess_max", TenTo(18)),
                             max_iteration |-> GetOr(kw, "max_iteration", Big(256))]),
                        None)
    /\ UNCHANGED <<nonToolVars, swap_data, tool_out>>

\* add_liquidity_with_token(..., swap_type=0, guess_min=0, guess_max=10**18)
add_liquidity_with_token ==
    /\ tool = "none"
    /\ pc = "idle"
    /\ \E kw \in ToolKwargs({"swap_type", "guess_min", "guess_max"}) :
        LET member == SwapType(GetOr(kw, "swap_type", 0))
        IN  /\ tool' = "add_liquidity_with_token"
            /\ kwargs' = kw
            /\ IF member.kind = "raise"
               THEN /\ tool_out' = member
                    /\ UNCHANGED <<chainVars, swap_data>>
               ELSE /\ swap_data' = create_swap_data(member.value)
                    /\ UnguardedEnter("add_liquidity_single_token",
                                      create_approx_params(
                                          [guess_min |-> GetOr(kw, "guess_min", Big(0)),
                                           guess_max |-> GetOr(kw, "guess_max", TenTo(18))]),
                                      create_token_input(create_swap_data(member.value)))
                    /\ UNCHANGED tool_out
    /\ UNCHANGED nonToolVars

\* remove_liquidity_to_token(..., swap_type=0)
remove_liquidity_to_token ==
    /\ tool = "none"
    /\ pc = "idle"
    /\ \E kw \in ToolKwargs({"swap_type"}) :
        LET member == SwapType(GetOr(kw, "swap_type", 0))
        IN  /\ tool' = "remove_liquidity_to_token"
            /\ kwargs' = kw
            /\ IF member.kind = "raise"
               THEN /\ tool_out' = member
                    /\ UNCHANGED <<chainVars, swap_data>>
               ELSE /\ swap_data' = create_swap_data(member.value)
                    /\ UnguardedEnter("remove_liquidity_single_token", None,
                                      create_token_output(create_swap_data(member.value)))
                    /\ UNCHANGED tool_out
    /\ UNCHANGED nonToolVars

\* The tool is over; the next one is called.
ToolNextCall ==
    /\ tool # "none"
    /\ pc \in {"returned", "raised"} \/ tool_out # None
    /\ pc' = "idle"
    /\ op' = "none"
    /\ chain_log' = <<>>
    /\ transaction' = None
    /\ tx_hash' = <<>>
    /\ receipt' = None
    /\ caught' = None
    /\ result' = None
    /\ raised' = None
    /\ approx_params' = None
    /\ token_arg' = None
    /\ router_args' = None
    /\ tool' = "none"
    /\ kwargs' = <<>>
    /\ swap_data' = None
    /\ tool_out' = None
    /\ UNCHANGED <<nonToolVars, PENDLE_CONTRACT_ADDRESS>>

NextTools ==
    \/ create_approx_params_call
    \/ create_approximation_params
    \/ add_liquidity_with_sy_only
    \/ add_liquidity_with_token
    \/ remove_liquidity_to_token
    \/ BuildOk
    \/ BuildFail
    \/ SignOk
    \/ SignFail
    \/ SubmitOk
    \/ SubmitFail
    \/ WaitOk
    \/ WaitFail
    \/ GasPriceChange
    \/ ToolNextCall

SpecTools == InitChain /\ [][NextTools]_vars

(***************************************************************************)
(* Claims about the approximation parameters and the swap types.           *)
(***************************************************************************)

\* The documented default of each argument of create_approx_params, digit
\* by digit.
DocumentedDefault(k) ==
    CASE k = "guess_min"      -> [neg |-> FALSE, digits |-> <<0>>]
      [] k = "guess_max"      -> [neg |-> FALSE,
                                  digits |-> <<1, 0, 0, 0, 0, 0, 0, 0, 0, 0,
                                               0, 0, 0, 0, 0, 0, 0, 0, 0>>]
      [] k = "guess_offchain" -> [neg |-> FALSE, digits |-> <<0>>]
      [] k = "max_iteration"  -> [neg |-> FALSE, digits |-> <<2, 5, 6>>]
      [] k = "eps"            -> [neg |-> FALSE,
                                  digits |-> <<1, 0, 0, 0, 0, 0, 0, 0,
                                               0, 0, 0, 0, 0, 0, 0, 0>>]

\* The value the field of argument k must hold after a call with kw.
FieldFor(kw, k) == IF k \in DOMAIN kw THEN kw[k] ELSE DocumentedDefault(k)

\* (guessMin, guessMax, guessOffchain, maxIteration, eps) for a call with kw.
ExpectedTuple(kw) ==
    <<FieldFor(kw, "guess_min"), FieldFor(kw, "guess_max"), FieldFor(kw, "guess_offchain"),
      FieldFor(kw, "max_iteration"), FieldFor(kw, "eps")>>

\* The tools that build an ApproxParams from their keyword arguments.
ApproxTools == {"add_liquidity_with_sy_only", "add_liquidity_with_token"}

\* The call (guessMin=100, guessMax=1000000, maxIteration=128).
IsExampleCall(kw) ==
    /\ DOMAIN kw = {"guess_min", "guess_max", "max_iteration"}
    /\ kw["guess_min"].digits = <<1, 0, 0>>
    /\ kw["guess_max"].digits = <<1, 0, 0, 0, 0, 0, 0>>
    /\ kw["max_iteration"].digits = <<1, 2, 8>>

\* C18: create_approx_params stores every supplied argument unchanged and
\* gives every omitted one its documented default, so that a call without
\* arguments yields (0, 10^18, 0, 256, 10^15): in the ApproxParams it returns
\* to a direct caller, in the dict create_approximation_params returns, in
\* the ApproxParams the add-liquidity tools hand to their operation and in
\* the tuple the operation hands to the router.
C18_ApproxParamsDefaults ==
    /\ tool = "create_approx_params" =>
          /\ tool_out.kind = "return"
          /\ <<tool_out.value.guessMin, tool_out.value.guessMax,
               tool_out.value.guessOffchain, tool_out.value.maxIteration,
               tool_out.value.eps>> = ExpectedTuple(kwargs)
          /\ DOMAIN kwargs = {} =>
                tool_out.value = [guessMin |-> Big(0), guessMax |-> TenTo(18),
                                  guessOffchain |-> Big(0), maxIteration |-> Big(256),
                                  eps |-> TenTo(15)]
    /\ tool = "create_approximation_params" =>
          /\ tool_out.kind = "return"
          /\ <<tool_out.value.guess_min, tool_out.value.guess_max,
               tool_out.value.guess_offchain, tool_out.value.max_iteration,
               tool_out.value.eps>> = ExpectedTuple(kwargs)
    /\ (tool \in ApproxTools /\ op # "none") =>
          /\ <<approx_params.guessMin, approx_params.guessMax, approx_params.guessOffchain,
               approx_params.maxIteration, approx_params.eps>> = ExpectedTuple(kwargs)
          /\ router_args # None => router_args.approx = ExpectedTuple(kwargs)
    /\ (tool = "add_liquidity_with_sy_only" /\ IsExampleCall(kwargs) /\ router_args # None) =>
          router_args.approx = <<Big(100), Big(1000000), Big(0), Big(128), TenTo(15)>>

\* create_approx_params() without arguments has returned a guessMax of 10^18
\* and an eps of 10^15.
C18_Witness ==
    /\ tool = "create_approx_params"
    /\ DOMAIN kwargs = {}
    /\ tool_out.value.guessMax.digits
          = <<1, 0, 0, 0, 0, 0, 0, 0, 0, 0, 0, 0, 0, 0, 0, 0, 0, 0, 0>>
    /\ tool_out.value.eps.digits = <<1, 0, 0, 0, 0, 0, 0, 0, 0, 0, 0, 0, 0, 0, 0, 0>>

\* The documented value of each swap type.
DocumentedSwapTypes ==
    [NONE |-> 0, KYBERSWAP |-> 1, ONE_INCH |-> 2, NATIVE |-> 3, UNISWAPV2 |-> 4,
     UNISWAPV3 |-> 5, CURVE |-> 6, BALANCER |-> 7, BANCOR |-> 8]

\* The tools that construct a swap type from the ordinal they are given.
SwapTools == {"add_liquidity_with_token", "remove_liquidity_to_token"}

\* C19: a tool given an ordinal 0..8 builds its swap data with the member of
\* that value (NONE = 0 through BANCOR = 8, nine members, no gap), and a
\* tool given any other ordinal fails with InvalidParametersError.
C19_SwapTypeFromOrdinal ==
    tool \in SwapTools =>
        LET n == GetOr(kwargs, "swap_type", 0)
        IN  IF n \in 0..8
            THEN /\ tool_out = None
                 /\ swap_data # None
                 /\ swap_data.swapType.value = n
                 /\ swap_data.swapType.name \in DOMAIN DocumentedSwapTypes
                 /\ DocumentedSwapTypes[swap_data.swapType.name] = n
            ELSE /\ tool_out.kind = "raise"
                 /\ tool_out.exc.cls = "InvalidParametersError"

\* a <= b for two lists of decimal digits without leading zeros.
DigitsLeq(a, b) ==
    \/ Len(a) < Len(b)
    \/ /\ Len(a) = Len(b)
       /\ \/ a = b
          \/ \E i \in 1..Len(a) : a[i] < b[i] /\ \A j \in 1..(i - 1) : a[j] = b[j]

\* a <= b for two integers.
BigLeq(a, b) ==
    IF a.neg /\ ~b.neg THEN TRUE
    ELSE IF ~a.neg /\ b.neg THEN FALSE
    ELSE IF a.neg THEN DigitsLeq(b.digits, a.digits)
    ELSE DigitsLeq(a.digits, b.digits)

\* C20: every approximation tuple handed to the router function has five
\* non-negative fields and guessMin <= guessMax.
C20_RouterApproxWellFormed ==
    (router_args # None /\ router_args.approx # <<>>) =>
        /\ \A i \in 1..5 : ~router_args.approx[i].neg
        /\ BigLeq(router_args.approx[1], router_args.approx[2])

(***************************************************************************)
(* Claims about the transaction an operation builds.                       *)
(***************************************************************************)

LiquidityOperations ==
    {"add_liquidity_dual_sy_and_pt", "add_liquidity_single_sy", "add_liquidity_single_token",
     "remove_liquidity_dual_sy_and_pt", "remove_liquidity_single_sy",
     "remove_liquidity_single_token"}

PyOperations == {"mint_py_from_sy", "redeem_py_to_sy"}

\* A transaction of the running call exists.
HasTransaction == op # "none" /\ transaction # None

\* The call builds its transaction in this step.
Builds == pc = "entered" /\ pc' = "built"

\* C21: a transaction built by one of the six liquidity operations carries
\* gas 500,000 and one built by mint_py_from_sy or redeem_py_to_sy carries
\* gas 300,000, whatever the arguments; its gas price is the network's gas
\* price at the moment the call builds it.
C21_GasLimitAndPrice ==
    /\ [](HasTransaction =>
            /\ op \in LiquidityOperations => transaction.gas = 500000
            /\ op \in PyOperations => transaction.gas = 300000)
    /\ [][Builds => transaction'.gasPrice = gas_price]_vars

\* mint_py_from_sy has built a transaction at the higher gas price.
C21_Witness ==
    /\ op = "mint_py_from_sy"
    /\ pc = "built"
    /\ transaction.gas = 300000
    /\ transaction.gasPrice = 20

\* C22: whenever one of the four operations that take limit-order data
\* has called its router function, the limit-order argument (the last
\* positional one) is the empty default: zero address, 0, no normal fills,
\* no flash fills, empty bytes.
C22_LimitDataEmpty ==
    (op \in LimitOperations /\ router_args # None) =>
        /\ router_args.limit
              = <<"0x0000000000000000000000000000000000000000", 0, <<>>, <<>>, <<>>>>
        /\ router_args.positional[Len(router_args.positional)] = router_args.limit

\* remove_liquidity_single_token, called with a populated swap, has handed
\* the empty limit-order data to the router.
C22_Witness ==
    /\ op = "remove_liquidity_single_token"
    /\ pc = "built"
    /\ token_arg.swapData.needScale
    /\ router_args.limit # <<>>

\* Where the approximation tuple and the token tuple stand among the
\* positional arguments of each router function (0: not taken).
ApproxPosition(o) ==
    CASE o = "add_liquidity_single_sy"    -> 5
      [] o = "add_liquidity_single_token" -> 4
      [] OTHER                            -> 0

TokenPosition(o) ==
    CASE o = "add_liquidity_single_token"    -> 5
      [] o = "remove_liquidity_single_token" -> 4
      [] OTHER                               -> 0

\* The swap tuple of a token struct, field by field.
ExpectedSwap(tok) ==
    <<tok.swapData.swapType.value, tok.swapData.extRouter, tok.swapData.extCalldata,
      tok.swapData.needScale>>

\* C25: the router function gets the approximation tuple (guessMin,
\* guessMax, guessOffchain, maxIteration, eps) and the token tuple (token,
\* amount, SY token, pendleSwap, (swap type ordinal, extRouter, extCalldata,
\* needScale)) at their place in the signature, every field as the caller
\* gave it.
C25_PositionalArguments ==
    router_args # None =>
        /\ ApproxPosition(op) # 0 =>
              router_args.positional[ApproxPosition(op)]
                  = <<approx_params.guessMin, approx_params.guessMax,
                      approx_params.guessOffchain, approx_params.maxIteration,
                      approx_params.eps>>
        /\ op = "add_liquidity_single_token" =>
              router_args.positional[TokenPosition(op)]
                  = <<token_arg.tokenIn, token_arg.netTokenIn, token_arg.tokenMintSy,
                      token_arg.pendleSwap, ExpectedSwap(token_arg)>>
        /\ op = "remove_liquidity_single_token" =>
              router_args.positional[TokenPosition(op)]
                  = <<token_arg.tokenOut, token_arg.minTokenOut, token_arg.tokenRedeemSy,
                      token_arg.pendleSwap, ExpectedSwap(token_arg)>>
        /\ Len(router_args.positional)
              = (CASE op \in {"add_liquidity_single_sy", "add_liquidity_single_token"} -> 6
                   [] op \in {"mint_py_from_sy", "redeem_py_to_sy"} -> 3
                   [] OTHER -> 5)

\* add_liquidity_single_token, called with guessMin = 100 and a KYBERSWAP
\* swap, has called the router.
C25_Witness ==
    /\ op = "add_liquidity_single_token"
    /\ pc = "built"
    /\ approx_params.guessMin = Big(100)
    /\ token_arg.swapData.swapType.name = "KYBERSWAP"
    /\ router_args.positional[5][5][1] = 1

(***************************************************************************)
(* hybrid_tools.py: the tool around a hosted conversion operation.         *)
(***************************************************************************)
\* The fixed message of a tool's success answer.  Its first character is
\* outside ASCII and is written here by its Unicode code point.
ToolMessage(o) ==
    CASE o = "convert_swap" ->
           <<"U+1F504", " Swap Transaction Ready">>
      [] o = "convert_add_liquidity" ->
           <<"U+1F4A7", " Add Liquidity Transaction Ready">>
      [] o = "convert_add_liquidity_zpi" ->
           <<"U+1F4A7", " Add Liquidity (ZPI) Transaction Ready">>
      [] o = "convert_remove_liquidity" ->
           <<"U+1F4B8", " Remove Liquidity Transaction Ready">>
      [] o = "convert_mint_pt_yt" ->
           <<"U+1FA99", " Mint PT & YT Transaction Ready">>
      [] o = "convert_redeem_pt_yt" ->
           <<"U+1F4B0", " Redeem PT & YT Transaction Ready">>
      [] o = "convert_mint_sy" ->
           <<"U+1F3ED", " Mint SY Transaction Ready">>
      [] o = "convert_redeem_sy" ->
           <<"U+1F513", " Redeem SY Transaction Ready">>
      [] o = "convert_rollover_pt" ->
           <<"U+1F504", " Rollover PT Transaction Ready">>
      [] o = "convert_add_liquidity_dual" ->
           <<"U+1F48E", " Add Dual Liquidity Transaction Ready">>
      [] o = "convert_remove_liquidity_dual" ->
           <<"U+1F48E", " Remove Dual Liquidity Transaction Ready">>
      [] o = "convert_transfer_liquidity" ->
           <<"U+1F500", " Transfer Liquidity Transaction Ready">>
      [] o = "convert_transfer_liquidity_zpi" ->
           <<"U+1F500", " Transfer Liquidity (ZPI) Transaction Ready">>

\* try: result = await pendle_api.<operation>(...); return {"status":
\* "success", "message": <the tool's message>, "data": result}; except
\* Exception as e: return {"status": "error", "message": str(e)}
ConvertTool(o, outcome) ==
    IF outcome.kind = "return"
    THEN [status |-> "success", message |-> ToolMessage(o), data |-> outcome.value]
    ELSE [status |-> "error", message |-> outcome.exc.text]

\* The hosted service answered this call's request with a 2xx status and a
\* JSON object.
AnsweredWithObject(resp) ==
    /\ resp.kind = "http"
    /\ IsSuccessStatus(resp.status)
    /\ resp.body.json = "object"

\* C23: a conversion result with status "success" or with transaction
\* fields carries exactly the to, data and value of the 2xx answer the
\* hosted service gave to this call's request; after a failed or non-2xx
\* upstream call the operation raises and its tool returns an error without
\* a transaction payload.
C23_TransactionOnlyFromUpstream ==
    conv_pc = "done" =>
        LET answer == ConvertTool(conv_op, conv_outcome)
        IN  /\ (answer.status = "success" \/ HasTransactionPayload(conv_outcome)) =>
                  /\ AnsweredWithObject(conv_response)
                  /\ "transaction" \in DOMAIN conv_outcome.value =>
                        conv_outcome.value.transaction
                            = [to    |-> Get(conv_response.body.object, "to"),
                               data  |-> Get(conv_response.body.object, "data"),
                               value |-> Get(conv_response.body.object, "value")]
            /\ UpstreamFailed(conv_response) =>
                  /\ conv_outcome.kind = "raise"
                  /\ answer.status = "error"
                  /\ "data" \notin DOMAIN answer

(***************************************************************************)
(* Claims about the upstream requests of get_markets_batch.                *)
(***************************************************************************)
\* C24: while get_markets_batch gathers, no chain is past its first
\* upstream request: a chain whose request failed or was answered with a
\* status other than 200 gets no second one.
C24_OneRequestPerChain ==
    batch_pc = "gathering" =>
        \A i \in 1..Len(chain_ids) : chain_try[i] <= 1

\* The call before this one succeeded for every chain, with the same chain
\* identifiers and limit, less than 60 seconds ago.
RepeatsFreshCall ==
    /\ batch_prev # None
    /\ batch_prev.succeeded
    /\ batch_prev.chain_ids = chain_ids
    /\ batch_prev.limit = limit
    /\ now - batch_prev.at < 60

\* C26: a call of get_markets_batch that repeats a successful call less
\* than 60 seconds old has no upstream request in flight.
C26_RepeatServedFromCache ==
    (batch_pc = "gathering" /\ RepeatsFreshCall) =>
        \A i \in 1..Len(chain_ids) : chain_try[i] = 0

(***************************************************************************)
(* Claims about what a cached read does to the cache (SpecCache).          *)
(***************************************************************************)
\* The step is caller t entering _fetch_with_cache and being served from
\* the cache.
ServedFromCache(t) == Enters(t) /\ task_pc'[t] = "done"

\* C27: a read served from the cache leaves the cache map as it was, and
\* a read is served from the cache only while the entry of its key is less
\* than 60 seconds old, counted from when the entry was written.
C27_HitStep ==
    \A t \in Tasks :
        ServedFromCache(t) =>
            /\ _cache' = _cache
            /\ cache_key'[t] \in DOMAIN _cache
            /\ now - _cache[cache_key'[t]].timestamp < 60
            /\ task_out'[t] = Return(_cache[cache_key'[t]].data)

C27_HitLeavesCache == [][C27_HitStep]_vars

\* A read at second 59 was served the entry written at second 0.
C27_Witness ==
    /\ now = 59
    /\ task_pc["t1"] = "done"
    /\ task_get["t1"] = None
    /\ cache_key["t1"] \in DOMAIN _cache
    /\ _cache[cache_key["t1"]].timestamp = 0
    /\ task_out["t1"] = Return(_cache[cache_key["t1"]].data)

\* The GET came back as a failure: no answer, a status outside 2xx, or a
\* body that is not JSON.
GetFailed(resp) ==
    \/ resp.kind = "transport_error"
    \/ resp.status < 200
    \/ resp.status > 299
    \/ resp.body.json = "invalid"

\* The error of a failed GET: the connection error, the status error naming
\* the status and the URL of the request, or the error of parsing the body.
IsErrorOf(exc, req, resp) ==
    IF resp.kind = "transport_error"
    THEN exc.cls = "ConnectError"
    ELSE IF resp.status < 200 \/ resp.status > 299
    THEN /\ exc.cls = "HTTPStatusError"
         /\ exc.text = StatusErrorText(RequestUrl(req), resp.status)
    ELSE /\ exc.cls = "JSONDecodeError"
         /\ exc.text = <<"Expecting value: line 1 column 1 (char 0)">>

\* C28: when the upstream request of a cached read fails, the read raises
\* the error of that failure to its caller, and the cache map is what it was
\* before the call: no entry is created, and an expired entry of the key is
\* neither refreshed nor served.
C28_FailedFetchStep ==
    \A t \in Tasks :
        /\ Enters(t) => _cache' = _cache
        /\ (Finishes(t) /\ GetFailed(task_resp'[t])) =>
              /\ task_out'[t].kind = "raise"
              /\ IsErrorOf(task_out'[t].exc, task_req[t], task_resp'[t])
              /\ _cache' = _cache

C28_FailedFetchLeavesCache == [][C28_FailedFetchStep]_vars

\* A read of a key whose entry had expired was answered 500, ended with the
\* status error, and the expired entry is still there.
C28_Witness ==
    /\ task_pc["t1"] = "done"
    /\ task_resp["t1"] # None
    /\ GetFailed(task_resp["t1"])
    /\ task_resp["t1"].kind = "http"
    /\ task_resp["t1"].status = 500
    /\ task_out["t1"].kind = "raise"
    /\ task_out["t1"].exc.cls = "HTTPStatusError"
    /\ cache_key["t1"] \in DOMAIN _cache
    /\ now - _cache[cache_key["t1"]].timestamp >= 60

(***************************************************************************)
(* Claims about messages with several revert identifiers (SpecClassify).   *)
(***************************************************************************)
\* The places in Precedence of the identifiers that occur in msg.
Recognised(msg) == {i \in 1..Len(Precedence) : Contains(Precedence[i], msg)}

\* The first place at which identifier i occurs in msg.
FirstOccurrence(i, msg) ==
    CHOOSE k \in 1..Len(msg) :
        /\ SubSeq(msg, k, k + Len(Precedence[i]) - 1) = Precedence[i]
        /\ \A j \in 1..(k - 1) : SubSeq(msg, j, j + Len(Precedence[i]) - 1) # Precedence[i]

\* C29: a message with more than one recognised revert identifier is
\* classified as exactly one error, the one of the identifier that comes
\* first in the precedence MarketExpired, MarketExchangeRateBelowOne,
\* MarketProportionTooHigh, MarketZeroAmountsInput, MarketZeroAmountsOutput,
\* wherever the identifiers stand in the message.
C29_FixedPrecedence ==
    (classified # None /\ Cardinality(Recognised(error_msg)) > 1) =>
        \E i \in Recognised(error_msg) :
            /\ \A j \in Recognised(error_msg) : i <= j
            /\ classified = Raise(ErrorFor(Precedence[i]))

\* A message with MarketZeroAmountsOutput standing before
\* MarketZeroAmountsInput, and no other identifier, was classified as the
\* zero-amount input error.
C29_Witness ==
    /\ classified # None
    /\ Recognised(error_msg) = {4, 5}
    /\ FirstOccurrence(5, error_msg) < FirstOccurrence(4, error_msg)
    /\ classified = Raise(ErrorFor(MarketZeroAmountsInput))

(***************************************************************************)
(* pendle_api_client.py: get_best_opportunities.  The caller is the cache  *)
(* caller "t1"; a market's number fields are numbers or absent, except     *)
(* liquidity, which may be null.                                           *)
(***************************************************************************)
\* The hard-coded answer returned when the cached fetch raises.
MockOpportunities ==
    [opportunities |->
        << [market |-> Str(<<"USDC-PT">>),
            address |-> Str(<<"0x1234567890123456789012345678901234567890">>),
            apy |-> <<"1", "2", ".", "5", "%">>,
            impliedAPY |-> <<"8", ".", "2", "%">>,
            liquidity |-> <<"$", "2", ".", "5", "M">>,
            daysToMaturity |-> 45,
            volume24h |-> <<"$", "1", ".", "2", "M">>,
            riskScore |-> "Low"],
           [market |-> Str(<<"ETH-PT">>),
            address |-> Str(<<"0x2345678901234567890123456789012345678901">>),
            apy |-> <<"1", "5", ".", "8", "%">>,
            impliedAPY |-> <<"1", "0", ".", "1", "%">>,
            liquidity |-> <<"$", "3", ".", "1", "M">>,
            daysToMaturity |-> 60,
            volume24h |-> <<"$", "2", ".", "1", "M">>,
            riskScore |-> "Medium"],
           [market |-> Str(<<"USDC-PT">>),
            address |-> Str(<<"0x3456789012345678901234567890123456789012">>),
            apy |-> <<"1", "3", ".", "8", "%">>,
            impliedAPY |-> <<"9", ".", "1", "%">>,
            liquidity |-> <<"$", "1", ".", "8", "M">>,
            daysToMaturity |-> 30,
            volume24h |-> <<"$", "8", "0", "0", "K">>,
            riskScore |-> "Low"] >>,
     count |-> 3,
     note  |-> "Realistic data based on Pendle Finance patterns"]

\* int(x / y) for y > 0: the quotient cut towards zero.
IntQuotient(x, y) == IF x >= 0 THEN x \div y ELSE 0 - ((0 - x) \div y)

\* int((expiry * 1000 - datetime.now().timestamp() * 1000) / (1000 * 60 * 60 * 24))
DaysToMaturity(expiry, clock) == IntQuotient(expiry - clock, 60 * 60 * 24)

\* One dict appended to opportunities.
OpportunityOf(m, clock) ==
    LET days == DaysToMaturity(GetOr(m, "expiry", Num(0)).num, clock)
    IN  [market         |-> Get(m, "name"),
         address        |-> Get(m, "address"),
         apy            |-> FormatPercent2(GetOr(m, "aggregatedApy", Num(0)).num),
         impliedAPY     |-> FormatPercent2(GetOr(m, "impliedApy", Num(0)).num),
         liquidity      |-> FormatMillions(GetOr(m, "liquidity", Num(0)).num),
         daysToMaturity |-> days,
         volume24h      |-> FormatMillions(GetOr(m, "volume24h", Num(0)).num),
         riskScore      |-> IF days > 90 THEN "Low"
                            ELSE IF days > 30 THEN "Medium" ELSE "High"]

RECURSIVE FilterByLiquidity(_, _)
\* [m for m in markets if m.get("liquidity", 0) >= min_liquidity], or the
\* TypeError of comparing None.
FilterByLiquidity(items, min_liquidity) ==
    IF items = <<>> THEN Return(<<>>)
    ELSE LET liq == GetOr(Head(items), "liquidity", Num(0))
         IN  IF liq = None
             THEN Raise(Exc("TypeError",
                            <<"'>=' not supported between instances of 'NoneType' and 'int'">>,
                            None))
             ELSE LET rest == FilterByLiquidity(Tail(items), min_liquidity)
                  IN  IF rest.kind = "raise" THEN rest
                      ELSE IF liq.num >= min_liquidity
                      THEN Return(<<Head(items)>> \o rest.value)
                      ELSE rest

\* What get_best_opportunities makes of the outcome of its cached fetch.
BestOpportunities(fetched, min_liquidity, clock) ==
    IF fetched.kind = "raise" THEN Return(MockOpportunities)
    ELSE LET markets == ExtractMarkets(fetched.value.body)
         IN  IF markets.json = "dict"
             THEN IF DOMAIN markets.fields = {}
                  THEN Return([opportunities |-> <<>>, count |-> 0])
                  ELSE Raise(Exc("AttributeError",
                                 <<"'str' object has no attribute 'get'">>, None))
             ELSE LET filtered == FilterByLiquidity(markets.items, min_liquidity)
                  IN  IF filtered.kind = "raise" THEN filtered
                      ELSE LET first == Take(filtered.value, 15)
                               opportunities ==
                                   [i \in 1..Len(first) |-> OpportunityOf(first[i], clock)]
                           IN  Return([opportunities |-> opportunities,
                                       count |-> Len(opportunities)])

\* The markets the analytics service may list.
MarketUsdc == [name |-> Str(<<"USDC-PT">>), address |-> Str(<<"0xA">>),
               aggregatedApy |-> Num(1250), impliedApy |-> Num(820),
               liquidity |-> Num(2500000), expiry |-> Num(8640000),
               volume24h |-> Num(1200000)]
MarketEth  == [name |-> Str(<<"ETH-PT">>), address |-> Str(<<"0xB">>),
               aggregatedApy |-> Num(1580), liquidity |-> Num(150000)]
MarketThin == [name |-> Str(<<"THIN-PT">>), aggregatedApy |-> Num(900),
               liquidity |-> Num(50000)]
MarketNull == [name |-> Str(<<"NULL-PT">>), liquidity |-> None]

\* A parsed JSON body as the cache holds it.
ParsedList(items)  == [type |-> "list", len |-> Len(items), body |-> ListJson(items)]
ParsedDict(fields) == [type |-> "dict", len |-> Cardinality(DOMAIN fields),
                       body |-> DictJson(fields)]

OpportunityPayloads ==
    {ParsedList(<<>>),
     ParsedList(<<MarketUsdc>>),
     ParsedList(<<MarketUsdc, MarketEth, MarketThin>>),
     ParsedList(<<MarketThin, MarketEth, MarketUsdc>>),
     ParsedList(<<MarketUsdc, MarketNull>>),
     ParsedList([i \in 1..16 |-> IF i = 16 THEN MarketEth ELSE MarketUsdc]),
     ParsedDict([results |-> ListJson(<<MarketEth, MarketUsdc>>)]),
     ParsedDict([message |-> Str(<<"ok">>)])}

OpportunityResponses ==
    {[kind |-> "transport_error"],
     [kind |-> "http", status |-> 404, body |-> [json |-> "invalid"]],
     [kind |-> "http", status |-> 500, body |-> [json |-> "invalid"]],
     [kind |-> "http", status |-> 200, body |-> [json |-> "invalid"]]}
    \cup {[kind |-> "http", status |-> 200, body |-> [json |-> "ok", data |-> d]] :
             d \in OpportunityPayloads}

MinLiquidities == {0, 100000, 5000000}

\* get_best_opportunities(chain_id, min_liquidity) up to the await of the
\* GET, or to its return when the cache serves the request.
BestOpportunitiesStart ==
    /\ task_pc["t1"] = "idle"
    /\ \E min_liquidity \in MinLiquidities :
         LET req == OpportunitiesRequest(1)
             key == _get_cache_key(req.endpoint, req.params)
             hit == _get_cached(key)
         IN  /\ opp_min' = min_liquidity
             /\ task_req' = [task_req EXCEPT !["t1"] = req]
             /\ cache_key' = [cache_key EXCEPT !["t1"] = key]
             /\ cached' = [cached EXCEPT !["t1"] = hit]
             /\ IF Truthy(hit)
                THEN /\ task_pc' = [task_pc EXCEPT !["t1"] = "done"]
                     /\ task_out' = [task_out EXCEPT !["t1"] = Return(hit)]
                     /\ task_get' = [task_get EXCEPT !["t1"] = None]
                     /\ opp_out' = BestOpportunities(Return(hit), min_liquidity, now)
                ELSE /\ task_pc' = [task_pc EXCEPT !["t1"] = "awaiting"]
                     /\ task_out' = [task_out EXCEPT !["t1"] = None]
                     /\ task_get' = [task_get EXCEPT !["t1"] = req]
                     /\ opp_out' = None
    /\ UNCHANGED <<chainVars, classifyVars, convertVars, keyVars, batchVars, toolVars,
                   gas_price, now, _cache, task_resp>>

\* The GET is answered: the fetch stores and returns the parsed body or
\* raises, and get_best_opportunities runs to its end.
BestOpportunitiesFinish ==
    /\ task_pc["t1"] = "awaiting"
    /\ opp_out = None
    /\ \E resp \in OpportunityResponses :
         LET out == GetOutcome(task_req["t1"], resp)
         IN  /\ task_resp' = [task_resp EXCEPT !["t1"] = resp]
             /\ task_out' = [task_out EXCEPT !["t1"] = out]
             /\ IF out.kind = "return"
                THEN _set_cache(cache_key["t1"], out.value)
                ELSE UNCHANGED _cache
             /\ opp_out' = BestOpportunities(out, opp_min, now)
    /\ task_pc' = [task_pc EXCEPT !["t1"] = "done"]
    /\ UNCHANGED <<chainVars, classifyVars, convertVars, keyVars, batchVars, toolVars,
                   gas_price, now, task_req, cache_key, cached, task_get, opp_min>>

\* The caller has its answer and may call again.
BestOpportunitiesNextCall ==
    /\ task_pc["t1"] = "done"
    /\ task_pc' = [task_pc EXCEPT !["t1"] = "idle"]
    /\ task_req' = [task_req EXCEPT !["t1"] = None]
    /\ cache_key' = [cache_key EXCEPT !["t1"] = <<>>]
    /\ cached' = [cached EXCEPT !["t1"] = None]
    /\ task_get' = [task_get EXCEPT !["t1"] = None]
    /\ task_resp' = [task_resp EXCEPT !["t1"] = None]
    /\ task_out' = [task_out EXCEPT !["t1"] = None]
    /\ opp_min' = 0
    /\ opp_out' = None
    /\ UNCHANGED <<chainVars, classifyVars, convertVars, keyVars, batchVars, toolVars,
                   gas_price, now, _cache>>

NextOpportunities ==
    \/ BestOpportunitiesStart
    \/ BestOpportunitiesFinish
    \/ BestOpportunitiesNextCall
    \/ Tick

SpecOpportunities == InitCache /\ [][NextOpportunities]_vars

(***************************************************************************)
(* Claims about get_best_opportunities (SpecOpportunities).                *)
(***************************************************************************)
RECURSIVE DigitsValue(_)
\* The number written by a list of decimal digits.
DigitsValue(ds) ==
    IF ds = <<>> THEN 0
    ELSE DigitsValue(SubSeq(ds, 1, Len(ds) - 1)) * 10
         + ((CHOOSE i \in 1..10 : Digits[i] = ds[Len(ds)]) - 1)

\* The number written as "<digits>.<one or two digits>", in hundredths.
Hundredths(text) ==
    LET dot  == CHOOSE i \in 1..Len(text) : text[i] = "."
        frac == SubSeq(text, dot + 1, Len(text))
    IN  DigitsValue(SubSeq(text, 1, dot - 1)) * 100
        + (IF Len(frac) = 1 THEN DigitsValue(frac) * 10 ELSE DigitsValue(frac))

\* The liquidity of a returned opportunity, "$<x>M", in dollars, and its APY,
\* "<x>%", in hundredths of a percent.
LiquidityOf(o) == Hundredths(SubSeq(o.liquidity, 2, Len(o.liquidity) - 1)) * 10000
ApyOf(o)       == Hundredths(SubSeq(o.apy, 1, Len(o.apy) - 1))

SortedByApy(os) ==
    \/ \A i \in 1..(Len(os) - 1) : ApyOf(os[i]) >= ApyOf(os[i + 1])
    \/ \A i \in 1..(Len(os) - 1) : ApyOf(os[i]) <= ApyOf(os[i + 1])

\* C30: whatever get_best_opportunities returns, after an answered or a
\* failed upstream request, holds at most 15 opportunities, each with a
\* liquidity of at least min_liquidity, sorted by APY, and a count equal to
\* their number.
C30_OpportunitiesFilteredAndSorted ==
    (opp_out # None /\ opp_out.kind = "return") =>
        LET os == opp_out.value.opportunities
        IN  /\ \A i \in 1..Len(os) : LiquidityOf(os[i]) >= opp_min
            /\ Len(os) <= 15
            /\ SortedByApy(os)
            /\ opp_out.value.count = Len(os)

====
